---- MODULE Spec2Model ----
(***************************************************************************)
(* Model of the prefork HTTP server: the bounded connection queue          *)
(* (connection_queue.c), the worker process with its accept loop and pool  *)
(* threads (server.c), the request handler's bookkeeping (http.c, stats.c) *)
(* and the per-worker LRU file cache (file_cache.c).                       *)
(*                                                                         *)
(* Three next-state relations share the variables:                         *)
(*   Spec      one worker process: accept loop + pool threads              *)
(*   QSpec     the queue API driven by arbitrary producers, consumers and  *)
(*             a shutdown caller (every interleaving of the API)           *)
(*   CacheSpec the cache API driven by arbitrary put/get calls             *)
(***************************************************************************)
EXTENDS Integers, Sequences, FiniteSets, TLC

\* ------------------------------------------------------------------------
\* Sizes.  The ring is QUEUE_SIZE slots (100 in connection_queue.h); the
\* model runs the same code on a shorter ring.
\* ------------------------------------------------------------------------
QUEUE_SIZE == 2

\* config->threads_per_worker
THREADS_PER_WORKER == 2

\* Connections the listening socket delivers (descriptors handed to the
\* queue) in one run.
MaxConn == 3

\* Bytes are counted in units of 1/MiB of a mebibyte (1024 * 1024 bytes in
\* file_cache.h); paths are strings of at most MAX_PATH_LEN - 1 characters
\* once stored (512 in file_cache.h).
MiB == 2

MaxCacheMb == 1

MAX_PATH_LEN == 2

\* Heap cells available for cache entries; malloc fails when none is free.
MaxNodes == 2

\* Calls of the statistics API in one run of StatsSpec, and the period of
\* the summary line update_stats_with_code logs (15 in stats.c).
MaxCalls == 3

StatsLogEvery == 2

\* config.num_workers
NumWorkers == 2

\* Characters of the longest request target a client sends, and the number
\* of characters sscanf stores in req->path (511 in parse_http_request).
MaxTargetLen == 5

PathFieldLen == 4

\* Requests for the document answered in ServeSpec.
MaxServes == 2

\* The worker's main thread and its pool threads.
Main == <<"main", 0>>
Threads == {"thread"} \X (1..THREADS_PER_WORKER)

\* Callers of the queue API in QSpec: one producer, one more consumer than
\* connection_queue_shutdown posts releases, and the caller of shutdown.
Producer == <<"producer", 0>>
Consumers == {"consumer"} \X (1..(QUEUE_SIZE + 1))
Closer == <<"closer", 0>>
\* The caller of connection_queue_size in SizeSpec.
Monitor == <<"monitor", 0>>

Procs == {Main, Producer, Closer, Monitor} \cup Threads \cup Consumers
\* The descriptors: MaxConn connections, and after them the health probe
\* of FairProbeSpec.
Probe == MaxConn + 1
Conns == 1..Probe
Slots == 0..(QUEUE_SIZE - 1)
Workers == 1..NumWorkers

VARIABLES
  connections, head, tail, empty_slots, filled_slots, mutex, shutdown,
  pc, client_fd, idx,
  keep_running, sock, accepted, active_connections,
  pending, cache, last,
  stats, stats_sem, completed,
  wire, reply,
  reg, log_sem,
  mpc, mi, master_keep_running, wst, w_keep_running, sigpend,
  global_stats_mapped, server_fd_open, exit_code,
  http,
  cache_size_mb, cache_ptr, wcache, doc, served,
  size, borrow, rwlock

qvars == <<connections, head, tail, empty_slots, filled_slots, mutex, shutdown>>
pvars == <<pc, client_fd, idx>>
wvars == <<keep_running, sock, active_connections>>
gvars == <<pending>>
cvars == <<cache, last>>
svars == <<stats, stats_sem, completed>>
hvars == <<wire, reply>>
lvars == <<reg, log_sem>>
mvars == <<mpc, mi, master_keep_running, wst, w_keep_running, sigpend,
           global_stats_mapped, server_fd_open, exit_code>>
rvars == <<http>>
fvars == <<cache_size_mb, cache_ptr, wcache, doc, served>>
zvars == <<size, borrow, rwlock>>
ovars == <<svars, hvars, lvars, mvars, rvars, fvars, zvars>>
vars == <<qvars, pvars, wvars, accepted, gvars, cvars, ovars>>

\* ------------------------------------------------------------------------
\* Bounded connection queue (connection_queue.c)
\* ------------------------------------------------------------------------

\* The sentinel memset writes into every slot, and the failure return value.
NoFd == 0 - 1

\* Faulty variant: the index stops at the last slot instead of wrapping.
NextIndex_nowrap(i) == IF i + 1 < QUEUE_SIZE THEN i + 1 ELSE i

\* (i + 1) % QUEUE_SIZE: the advance of head and of tail.
NextIndex(i) == (i + 1) % QUEUE_SIZE

\* Faulty variant: empty_slots starts one too high.
QueueInit_extraslot ==
  /\ connections = [s \in Slots |-> NoFd]
  /\ head = 0
  /\ tail = 0
  /\ shutdown = 0
  /\ empty_slots = QUEUE_SIZE + 1
  /\ filled_slots = 0
  /\ mutex = 1

\* connection_queue_init
QueueInit ==
  /\ connections = [s \in Slots |-> NoFd]
  /\ head = 0
  /\ tail = 0
  /\ shutdown = 0
  /\ empty_slots = QUEUE_SIZE
  /\ filled_slots = 0
  /\ mutex = 1

Goto(p, l) == pc' = [pc EXCEPT ![p] = l]

\* The critical section of both enqueue functions: slot write, tail advance,
\* sem_post(&mutex).
EnqueueSection(p) ==
  /\ connections' = [connections EXCEPT ![tail] = client_fd[p]]
  /\ tail' = NextIndex(tail)
  /\ mutex' = mutex + 1
  /\ pending' = Append(pending, client_fd[p])

\* connection_queue_enqueue (blocking); ok/fail are the caller's labels for
\* the return values 0 and -1.
connection_queue_enqueue(p, ok, fail) ==
  \/ /\ pc[p] = "enq_wait"                      \* sem_wait(&empty_slots)
     /\ empty_slots > 0
     /\ empty_slots' = empty_slots - 1
     /\ Goto(p, "enq_chk")
     /\ UNCHANGED <<connections, head, tail, filled_slots, mutex, shutdown,
                    client_fd, idx, wvars, accepted, gvars, cvars, ovars>>
  \/ /\ pc[p] = "enq_chk"                       \* if (queue->shutdown)
     /\ shutdown = 1
     /\ empty_slots' = empty_slots + 1
     /\ Goto(p, fail)
     /\ UNCHANGED <<connections, head, tail, filled_slots, mutex, shutdown,
                    client_fd, idx, wvars, accepted, gvars, cvars, ovars>>
  \/ /\ pc[p] = "enq_chk"
     /\ shutdown = 0
     /\ Goto(p, "enq_lock")
     /\ UNCHANGED <<qvars, client_fd, idx, wvars, accepted, gvars, cvars, ovars>>
  \/ /\ pc[p] = "enq_lock"                      \* sem_wait(&mutex)
     /\ mutex > 0
     /\ mutex' = mutex - 1
     /\ Goto(p, "enq_cs")
     /\ UNCHANGED <<connections, head, tail, empty_slots, filled_slots, shutdown,
                    client_fd, idx, wvars, accepted, gvars, cvars, ovars>>
  \/ /\ pc[p] = "enq_cs"
     /\ EnqueueSection(p)
     /\ Goto(p, "enq_post")
     /\ UNCHANGED <<head, empty_slots, filled_slots, shutdown,
                    client_fd, idx, wvars, accepted, cvars, ovars>>
  \/ /\ pc[p] = "enq_post"                      \* sem_post(&filled_slots)
     /\ filled_slots' = filled_slots + 1
     /\ Goto(p, ok)
     /\ UNCHANGED <<connections, head, tail, empty_slots, mutex, shutdown,
                    client_fd, idx, wvars, accepted, gvars, cvars, ovars>>

\* connection_queue_try_enqueue (non-blocking) with the shutdown flag clear
\* at its check.
TryEnqueue(p, ok, fail) ==
  \/ /\ pc[p] = "try_wait"                      \* sem_trywait(&empty_slots)
     /\ empty_slots > 0
     /\ empty_slots' = empty_slots - 1
     /\ Goto(p, "try_chk")
     /\ UNCHANGED <<connections, head, tail, filled_slots, mutex, shutdown,
                    client_fd, idx, wvars, accepted, gvars, cvars, ovars>>
  \/ /\ pc[p] = "try_wait"                      \* queue is full
     /\ empty_slots = 0
     /\ Goto(p, fail)
     /\ UNCHANGED <<qvars, client_fd, idx, wvars, accepted, gvars, cvars, ovars>>
  \/ /\ pc[p] = "try_chk"                       \* if (queue->shutdown)
     /\ shutdown = 0
     /\ Goto(p, "try_lock")
     /\ UNCHANGED <<qvars, client_fd, idx, wvars, accepted, gvars, cvars, ovars>>
  \/ /\ pc[p] = "try_lock"                      \* sem_wait(&mutex)
     /\ mutex > 0
     /\ mutex' = mutex - 1
     /\ Goto(p, "try_cs")
     /\ UNCHANGED <<connections, head, tail, empty_slots, filled_slots, shutdown,
                    client_fd, idx, wvars, accepted, gvars, cvars, ovars>>
  \/ /\ pc[p] = "try_cs"
     /\ EnqueueSection(p)
     /\ Goto(p, "try_post")
     /\ UNCHANGED <<head, empty_slots, filled_slots, shutdown,
                    client_fd, idx, wvars, accepted, cvars, ovars>>
  \/ /\ pc[p] = "try_post"                      \* sem_post(&filled_slots)
     /\ filled_slots' = filled_slots + 1
     /\ Goto(p, ok)
     /\ UNCHANGED <<connections, head, tail, empty_slots, mutex, shutdown,
                    client_fd, idx, wvars, accepted, gvars, cvars, ovars>>

\* Faulty variant: the shutdown branch returns -1 and keeps its release of
\* empty_slots.
TryEnqueueOnShutdown_leak(p, fail) ==
  /\ pc[p] = "try_chk"
  /\ shutdown = 1
  /\ empty_slots' = empty_slots
  /\ Goto(p, fail)
  /\ UNCHANGED <<connections, head, tail, filled_slots, mutex, shutdown,
                 client_fd, idx, wvars, accepted, gvars, cvars, ovars>>

\* connection_queue_try_enqueue finding the shutdown flag set: the release
\* of empty_slots is given back and the call returns -1.
TryEnqueueOnShutdown(p, fail) ==
  /\ pc[p] = "try_chk"
  /\ shutdown = 1
  /\ empty_slots' = empty_slots + 1
  /\ Goto(p, fail)
  /\ UNCHANGED <<connections, head, tail, filled_slots, mutex, shutdown,
                 client_fd, idx, wvars, accepted, gvars, cvars, ovars>>

\* Faulty variant: the shutdown flag is not looked at after the slot is taken.
connection_queue_try_enqueue_nocheck(p, ok, fail) ==
  \/ TryEnqueue(p, ok, fail)
  \/ /\ pc[p] = "try_chk"
     /\ shutdown = 1
     /\ Goto(p, "try_lock")
     /\ UNCHANGED <<qvars, client_fd, idx, wvars, accepted, gvars, cvars, ovars>>

\* connection_queue_try_enqueue
connection_queue_try_enqueue(p, ok, fail) ==
  \/ TryEnqueue(p, ok, fail)
  \/ TryEnqueueOnShutdown(p, fail)

\* Faulty variant: the slot is not reset to the sentinel after it is read.
DequeueSection_keepslot(p) ==
  /\ client_fd' = [client_fd EXCEPT ![p] = connections[head]]
  /\ connections' = connections
  /\ head' = NextIndex(head)
  /\ mutex' = mutex + 1
  /\ pending' = SelectSeq(pending, LAMBDA x : x # connections[head])

\* The critical section of dequeue: slot read, slot reset to the sentinel,
\* head advance, sem_post(&mutex).
DequeueSection(p) ==
  /\ client_fd' = [client_fd EXCEPT ![p] = connections[head]]
  /\ connections' = [connections EXCEPT ![head] = NoFd]
  /\ head' = NextIndex(head)
  /\ mutex' = mutex + 1
  /\ pending' = SelectSeq(pending, LAMBDA x : x # connections[head])

\* Faulty variant: the shutdown branch returns -1 without giving its release back.
DequeueOnShutdown_norepost(p) ==
  /\ filled_slots' = filled_slots
  /\ client_fd' = [client_fd EXCEPT ![p] = NoFd]

\* The shutdown branch of dequeue: sem_post(&filled_slots); return -1.
DequeueOnShutdown(p) ==
  /\ filled_slots' = filled_slots + 1
  /\ client_fd' = [client_fd EXCEPT ![p] = NoFd]

\* connection_queue_dequeue; ok is the caller's label for a descriptor, fail
\* the one for -1.
connection_queue_dequeue(p, ok, fail) ==
  \/ /\ pc[p] = "deq_wait"                      \* sem_wait(&filled_slots)
     /\ filled_slots > 0
     /\ filled_slots' = filled_slots - 1
     /\ Goto(p, "deq_chk")
     /\ UNCHANGED <<connections, head, tail, empty_slots, mutex, shutdown,
                    client_fd, idx, wvars, accepted, gvars, cvars, ovars>>
  \/ /\ pc[p] = "deq_chk"                       \* if (queue->shutdown)
     /\ shutdown = 1
     /\ DequeueOnShutdown(p)
     /\ Goto(p, fail)
     /\ UNCHANGED <<connections, head, tail, empty_slots, mutex, shutdown,
                    idx, wvars, accepted, gvars, cvars, ovars>>
  \/ /\ pc[p] = "deq_chk"
     /\ shutdown = 0
     /\ Goto(p, "deq_lock")
     /\ UNCHANGED <<qvars, client_fd, idx, wvars, accepted, gvars, cvars, ovars>>
  \/ /\ pc[p] = "deq_lock"                      \* sem_wait(&mutex)
     /\ mutex > 0
     /\ mutex' = mutex - 1
     /\ Goto(p, "deq_cs")
     /\ UNCHANGED <<connections, head, tail, empty_slots, filled_slots, shutdown,
                    client_fd, idx, wvars, accepted, gvars, cvars, ovars>>
  \/ /\ pc[p] = "deq_cs"
     /\ DequeueSection(p)
     /\ Goto(p, "deq_post")
     /\ UNCHANGED <<tail, empty_slots, filled_slots, shutdown,
                    idx, wvars, accepted, cvars, ovars>>
  \/ /\ pc[p] = "deq_post"                      \* sem_post(&empty_slots)
     /\ empty_slots' = empty_slots + 1
     /\ Goto(p, ok)
     /\ UNCHANGED <<connections, head, tail, filled_slots, mutex, shutdown,
                    client_fd, idx, wvars, accepted, gvars, cvars, ovars>>

\* The number of sem_post(&filled_slots) calls of connection_queue_shutdown.
ShutdownPosts == QUEUE_SIZE

\* connection_queue_shutdown; done is the caller's label after the return.
connection_queue_shutdown(p, done) ==
  \/ /\ pc[p] = "sd_lock"                       \* sem_wait(&mutex)
     /\ mutex > 0
     /\ mutex' = mutex - 1
     /\ Goto(p, "sd_set")
     /\ UNCHANGED <<connections, head, tail, empty_slots, filled_slots, shutdown,
                    client_fd, idx, wvars, accepted, gvars, cvars, ovars>>
  \/ /\ pc[p] = "sd_set"                        \* shutdown = 1; sem_post(&mutex)
     /\ shutdown' = 1
     /\ mutex' = mutex + 1
     /\ idx' = [idx EXCEPT ![p] = 0]
     /\ Goto(p, "sd_post")
     /\ UNCHANGED <<connections, head, tail, empty_slots, filled_slots,
                    client_fd, wvars, accepted, gvars, cvars, ovars>>
  \/ /\ pc[p] = "sd_post"                       \* for (i < QUEUE_SIZE) sem_post
     /\ idx[p] < ShutdownPosts
     /\ filled_slots' = filled_slots + 1
     /\ idx' = [idx EXCEPT ![p] = idx[p] + 1]
     /\ Goto(p, IF idx[p] + 1 < ShutdownPosts THEN "sd_post" ELSE done)
     /\ UNCHANGED <<connections, head, tail, empty_slots, mutex, shutdown,
                    client_fd, wvars, accepted, gvars, cvars, ovars>>

\* ------------------------------------------------------------------------
\* Shared statistics (stats.c).  The counters are C ints; the model keeps
\* their two's-complement behaviour on a narrower int.
\* ------------------------------------------------------------------------
INT_MAX == 7

\* The value an int holds after an addition that yields x: x itself inside
\* the range, wrapped around outside it.
WrapInt(x) ==
  IF x > INT_MAX THEN x - 2 * (INT_MAX + 1)
  ELSE IF x < 0 - INT_MAX - 1 THEN x + 2 * (INT_MAX + 1)
  ELSE x

\* init_stats: the counters of the shared record are zero and the process-
\* shared semaphore is 1.  completed counts, outside the program, the calls
\* issued, the update_stats_with_code(b, 200) calls that returned and the
\* sum of their b.
init_stats ==
  /\ stats = [total_requests |-> 0, bytes_sent |-> 0, http_200_count |-> 0,
              http_404_count |-> 0, http_500_count |-> 0]
  /\ stats_sem = 1
  /\ completed = [issued |-> 0, calls |-> 0, bytes |-> 0]

\* Faulty variant: the 5xx counter counts only the code 500.
update_stats_with_code_only500(st, bytes, http_code) ==
  [st EXCEPT !.total_requests = WrapInt(@ + 1),
             !.bytes_sent = WrapInt(@ + bytes),
             !.http_200_count = IF http_code = 200 THEN WrapInt(@ + 1) ELSE @,
             !.http_404_count = IF http_code = 404 THEN WrapInt(@ + 1) ELSE @,
             !.http_500_count = IF http_code = 500 THEN WrapInt(@ + 1) ELSE @]

\* The body of update_stats_with_code between sem_wait and sem_post.
update_stats_with_code(st, bytes, http_code) ==
  [st EXCEPT !.total_requests = WrapInt(@ + 1),
             !.bytes_sent = WrapInt(@ + bytes),
             !.http_200_count = IF http_code = 200 THEN WrapInt(@ + 1) ELSE @,
             !.http_404_count = IF http_code = 404 THEN WrapInt(@ + 1) ELSE @,
             !.http_500_count = IF http_code # 200 /\ http_code # 404 /\ http_code >= 500
                                THEN WrapInt(@ + 1) ELSE @]

\* Nothing read from a connection and nothing written to it yet.  reply
\* keeps this record for the connections in its domain: all of them in
\* ReplySpec, none elsewhere.
NoReply == [got |-> FALSE, sent |-> 0]

\* A pool thread that holds no buffer of the cache: cached_content is the
\* cell whose content the thread was handed, freed whether free() was called
\* on that buffer since, out what the thread's send() took from it.
NoBorrow == [full_path |-> <<>>, cached_content |-> 0, freed |-> FALSE, out |-> ""]

\* No response written yet.
NoResponse == [status |-> 0, headers |-> {}]

\* A caller's arguments and the values it has loaded from the shared record.
NoReg ==
  [bytes |-> 0, code |-> 0, ac |-> 0,
   st |-> [total_requests |-> 0, bytes_sent |-> 0, http_200_count |-> 0,
           http_404_count |-> 0, http_500_count |-> 0]]

\* main() after init_stats, its signal() calls and create_server_socket:
\* about to fork the first worker.  exit_code is NoFd while main runs.
MasterStarted ==
  /\ mpc = "fork"
  /\ mi = 0
  /\ master_keep_running = 1
  /\ wst = [w \in Workers |-> "none"]
  /\ w_keep_running = [w \in Workers |-> 1]
  /\ sigpend = [w \in Workers |-> FALSE]
  /\ global_stats_mapped = TRUE
  /\ server_fd_open = TRUE
  /\ exit_code = NoFd

\* No request read yet.
NoRequest ==
  [stage |-> "idle", line |-> "none", method |-> "", target |-> <<>>,
   fs |-> "", kind |-> "", rel_path |-> <<>>, body |-> FALSE]

\* Nothing accepted, nothing called yet.
IdleBase ==
  /\ client_fd = [p \in Procs |-> NoFd]
  /\ idx = [p \in Procs |-> 0]
  /\ keep_running = 1
  /\ sock = [c \in Conns |-> "new"]
  /\ accepted = 0
  /\ active_connections = 0
  /\ pending = <<>>
  /\ init_stats
  /\ wire = NoResponse
  /\ reg = [p \in Procs |-> NoReg]
  /\ log_sem = 1                                \* logger_init: sem_open(.., 1)
  /\ MasterStarted
  /\ http = NoRequest
  /\ size = NoFd
  /\ borrow = [t \in Threads |-> NoBorrow]
  /\ rwlock = 0                                 \* pthread_rwlock_init

\* close(fd), recording who closed it; a second close of the same connection
\* (or a close of one never accepted) is recorded as "twice".
CloseFd(s, c, by) == [s EXCEPT ![c] = IF @ = "open" THEN by ELSE "twice"]

\* recv(fd) returned a request (got), and n responses were written to fd.
Replied(r, c, got, n) ==
  IF c \in DOMAIN r
  THEN [r EXCEPT ![c] = [got |-> @.got \/ got, sent |-> @.sent + n]]
  ELSE r

\* The slots that hold descriptor c.
SlotsOf(c) == {s \in Slots : connections[s] = c}

\* Faulty variant: destroy leaves the descriptors still in the ring open.
connection_queue_destroy_noclose(p, done) ==
  /\ pc[p] = "destroy"
  /\ mutex > 0
  /\ connections' = [s \in Slots |-> NoFd]
  /\ Goto(p, done)
  /\ UNCHANGED <<head, tail, empty_slots, filled_slots, mutex, shutdown,
                 client_fd, idx, wvars, accepted, gvars, cvars, ovars>>

\* connection_queue_destroy: under the mutex, close every slot that holds a
\* descriptor and reset it; then destroy the semaphores.
connection_queue_destroy(p, done) ==
  /\ pc[p] = "destroy"
  /\ mutex > 0
  /\ sock' = [c \in Conns |->
               IF SlotsOf(c) = {} THEN sock[c]
               ELSE IF Cardinality(SlotsOf(c)) = 1 THEN CloseFd(sock, c, "closed_destroy")[c]
               ELSE "twice"]
  /\ connections' = [s \in Slots |-> NoFd]
  /\ Goto(p, done)
  /\ UNCHANGED <<head, tail, empty_slots, filled_slots, mutex, shutdown,
                 client_fd, idx, keep_running, active_connections, accepted,
                 gvars, cvars, ovars>>

\* ------------------------------------------------------------------------
\* LRU file cache (file_cache.c)
\* ------------------------------------------------------------------------
MAX_FILE_SIZE == MiB

NULL == 0

\* Heap cells for cache_entry_t.
NodeIds == 1..MaxNodes

\* A cell that is not allocated.
FreeNode ==
  [used |-> FALSE, path |-> <<>>, content |-> "", content_size |-> 0,
   prev |-> NULL, next |-> NULL]

\* A path of MAX_PATH_LEN characters: one more than an entry stores.
LongPath == [i \in 1..MAX_PATH_LEN |-> "x"]

Paths == {<<"a">>, <<"b">>, LongPath}

Contents == {"u", "v"}

Sizes == 0..(MAX_FILE_SIZE + 1)

\* strncpy(entry->path, path, MAX_PATH_LEN - 1) and the terminating NUL.
StoredPath(path) ==
  SubSeq(path, 1, IF Len(path) < MAX_PATH_LEN - 1 THEN Len(path) ELSE MAX_PATH_LEN - 1)

\* file_cache_init
file_cache_init(max_size_mb) ==
  [head |-> NULL, tail |-> NULL, total_size |-> 0,
   max_size |-> max_size_mb * MiB, entry_count |-> 0,
   ent |-> [n \in NodeIds |-> FreeNode]]

\* Faulty variant: the entry is left where it is in the list.
move_to_front_stay(c, e) == c

\* move_to_front
move_to_front(c, e) ==
  IF c.head = e THEN c
  ELSE
    LET p == c.ent[e].prev
        n == c.ent[e].next
        ent1 == IF p # NULL THEN [c.ent EXCEPT ![p].next = n] ELSE c.ent
        ent2 == IF n # NULL THEN [ent1 EXCEPT ![n].prev = p] ELSE ent1
        tail1 == IF c.tail = e THEN p ELSE c.tail
        ent3 == [ent2 EXCEPT ![e].prev = NULL, ![e].next = c.head]
        ent4 == IF c.head # NULL THEN [ent3 EXCEPT ![c.head].prev = e] ELSE ent3
    IN [c EXCEPT !.ent = ent4, !.head = e,
                 !.tail = IF tail1 = NULL THEN e ELSE tail1]

\* The walk of find_entry from cell cur; left bounds the walk by the number
\* of cells.
RECURSIVE FindFrom(_, _, _, _)
FindFrom(c, cur, path, left) ==
  IF cur = NULL \/ left = 0 THEN NULL
  ELSE IF c.ent[cur].path = path THEN cur
  ELSE FindFrom(c, c.ent[cur].next, path, left - 1)

\* find_entry: strcmp of each stored path with the path looked up
find_entry(c, path) == FindFrom(c, c.head, path, Cardinality(NodeIds))

\* Faulty variant: the eviction leaves entry_count as it was.
evict_lru_nocount(c) ==
  IF c.tail = NULL THEN c
  ELSE
    LET lru == c.tail
        p == c.ent[lru].prev
        ent1 == IF p # NULL THEN [c.ent EXCEPT ![p].next = NULL] ELSE c.ent
    IN [c EXCEPT !.ent = [ent1 EXCEPT ![lru] = FreeNode],
                 !.tail = p,
                 !.head = IF c.head = lru THEN NULL ELSE c.head,
                 !.total_size = c.total_size - c.ent[lru].content_size]

\* evict_lru
evict_lru(c) ==
  IF c.tail = NULL THEN c
  ELSE
    LET lru == c.tail
        p == c.ent[lru].prev
        ent1 == IF p # NULL THEN [c.ent EXCEPT ![p].next = NULL] ELSE c.ent
    IN [c EXCEPT !.ent = [ent1 EXCEPT ![lru] = FreeNode],
                 !.tail = p,
                 !.head = IF c.head = lru THEN NULL ELSE c.head,
                 !.total_size = c.total_size - c.ent[lru].content_size,
                 !.entry_count = c.entry_count - 1]

\* make_space
RECURSIVE make_space(_, _)
make_space(c, needed_size) ==
  IF c.total_size + needed_size > c.max_size /\ c.tail # NULL
  THEN make_space(evict_lru(c), needed_size)
  ELSE c

\* file_cache_get: the cache after the call, the return value and the
\* borrowed buffer.
file_cache_get(c, path) ==
  LET entry == find_entry(c, path)
  IN IF entry = NULL
     THEN [cache |-> c, ret |-> NoFd, content |-> "", size |-> 0]
     ELSE [cache |-> move_to_front(c, entry), ret |-> 0,
           content |-> c.ent[entry].content, size |-> c.ent[entry].content_size]

\* file_cache_put, existing-key branch: replace the buffer, adjust
\* total_size, move to front.
PutExisting(c, existing, content, content_size) ==
  LET c1 == [c EXCEPT !.total_size = c.total_size - c.ent[existing].content_size
                                       + content_size,
                      !.ent = [c.ent EXCEPT ![existing].content = content,
                                            ![existing].content_size = content_size]]
  IN move_to_front(c1, existing)

\* file_cache_put, new-key branch after make_space: link a new entry at the
\* head.
PutNew(c, path, content, content_size) ==
  LET n == CHOOSE k \in NodeIds :
             ~c.ent[k].used /\ \A j \in NodeIds : ~c.ent[j].used => k <= j
      entry == [used |-> TRUE, path |-> StoredPath(path), content |-> content,
                content_size |-> content_size, prev |-> NULL, next |-> c.head]
      ent1 == [c.ent EXCEPT ![n] = entry]
      ent2 == IF c.head # NULL THEN [ent1 EXCEPT ![c.head].prev = n] ELSE ent1
  IN [c EXCEPT !.ent = ent2, !.head = n,
               !.tail = IF c.tail = NULL THEN n ELSE c.tail,
               !.total_size = c.total_size + content_size,
               !.entry_count = c.entry_count + 1]

\* Faulty variant: a content_size of 0 is not rejected.
file_cache_put_empty(c, path, content, content_size, mem) ==
  IF content_size > MAX_FILE_SIZE \/ content_size > c.max_size
  THEN [cache |-> c, ret |-> NoFd]
  ELSE
    LET existing == find_entry(c, path)
    IN IF existing # NULL
       THEN IF mem THEN [cache |-> PutExisting(c, existing, content, content_size),
                         ret |-> 0]
            ELSE [cache |-> c, ret |-> NoFd]
       ELSE LET c1 == make_space(c, content_size)
            IN IF mem /\ \E k \in NodeIds : ~c1.ent[k].used
               THEN [cache |-> PutNew(c1, path, content, content_size), ret |-> 0]
               ELSE [cache |-> c1, ret |-> NoFd]

\* file_cache_put: the cache after the call and the return value; mem says
\* whether the call's malloc()s succeed.
file_cache_put(c, path, content, content_size, mem) ==
  IF content_size = 0 \/ content_size > MAX_FILE_SIZE \/ content_size > c.max_size
  THEN [cache |-> c, ret |-> NoFd]
  ELSE
    LET existing == find_entry(c, path)
    IN IF existing # NULL
       THEN IF mem THEN [cache |-> PutExisting(c, existing, content, content_size),
                         ret |-> 0]
            ELSE [cache |-> c, ret |-> NoFd]
       ELSE LET c1 == make_space(c, content_size)
            IN IF mem /\ \E k \in NodeIds : ~c1.ent[k].used
               THEN [cache |-> PutNew(c1, path, content, content_size), ret |-> 0]
               ELSE [cache |-> c1, ret |-> NoFd]

\* The same with no connection's reads and responses on record.
IdleCore == IdleBase /\ reply = [c \in {} |-> NoReply]

\* Nothing accepted or called yet, CACHE_SIZE_MB=0 configured (cache_ptr
\* stays NULL and the cache is not used), a small document on disk and no
\* request for it answered.
IdleState ==
  /\ IdleCore
  /\ cache_size_mb = 0
  /\ cache_ptr = [w \in Workers |-> FALSE]
  /\ wcache = [w \in Workers |-> file_cache_init(0)]
  /\ doc = [path |-> <<"a">>, size |-> 1, content |-> "u"]
  /\ served = <<>>

\* No file_cache_put has succeeded since the last one failed / no
\* file_cache_get has been called since the last file_cache_put.
NoPut == [ok |-> FALSE, path |-> <<>>, content |-> "", size |-> 0]

NoGet == [called |-> FALSE, path |-> <<>>, ret |-> 0, content |-> "", size |-> 0]

\* The methods send_file_response is called with.
FileMethods == {"GET", "HEAD"}

\* The outcomes of the malloc()s of one call: all succeed, the read buffer
\* of send_file_response is refused, or an allocation inside file_cache_put
\* is refused.
Mallocs == {"ok", "nobuf", "noentry"}

\* The full path of index.html: short, or as long as an entry's path field.
DocPaths == {<<"a">>, LongPath}

\* Faulty variant: a configured size of 0 is raised to 1 MB instead of
\* leaving the cache off.
worker_cache_init_floor(max_size_mb) ==
  [ok |-> TRUE, ptr |-> TRUE,
   cache |-> file_cache_init(IF max_size_mb > 0 THEN max_size_mb ELSE 1)]

\* worker_process, cache set-up: cache_ptr stays NULL unless
\* config->cache_size_mb > 0, and then file_cache_init must succeed (it
\* does for a positive size). ptr says cache_ptr # NULL; with ptr FALSE the
\* cache structure is never read.
worker_cache_init(max_size_mb) ==
  [ok |-> TRUE, ptr |-> max_size_mb > 0, cache |-> file_cache_init(max_size_mb)]

\* send_file_response for a regular file that opens: the cache after the
\* call, the X-Cache header, the bytes counted, the content the body is
\* taken from and whether a body is written.
send_file_response(c, ptr, path, content, file_size, method, mem) ==
  LET got == IF ptr THEN file_cache_get(c, path)
             ELSE [cache |-> c, ret |-> NoFd, content |-> "", size |-> 0]
  IN IF ptr /\ got.ret = 0
     THEN [cache |-> got.cache, xcache |-> "X-Cache: HIT", size |-> got.size,
           content |-> got.content, body |-> method # "HEAD"]
     ELSE
       LET is_cacheable == ptr /\ file_size > 0 /\ file_size < MAX_FILE_SIZE
           c1 == IF is_cacheable /\ mem # "nobuf"
                 THEN file_cache_put(got.cache, path, content, file_size,
                                     mem = "ok").cache
                 ELSE got.cache
       IN [cache |-> c1, xcache |-> "X-Cache: MISS", size |-> file_size,
           content |-> content, body |-> method # "HEAD"]

\* file_cache_destroy: every entry freed, the list and the counters reset.
file_cache_destroy(c) ==
  [c EXCEPT !.head = NULL, !.tail = NULL, !.total_size = 0, !.entry_count = 0,
            !.ent = [n \in NodeIds |-> FreeNode]]

\* ------------------------------------------------------------------------
\* Request handling (http.c) and the shared gauge (stats.c)
\* ------------------------------------------------------------------------

\* increment_active_connections
increment_active_connections(n) == n + 1

\* Faulty variant: the decrement without its test.
decrement_active_connections_noclamp(n) == n - 1

\* decrement_active_connections: clamps at zero
decrement_active_connections(n) == IF n > 0 THEN n - 1 ELSE n

\* What the single recv of handle_client_connection can yield.
AllRequests ==
  {"empty", "malformed", "badmethod", "monitor", "dotdot",
   "file", "missing", "directory", "statfail"}

\* The requests the clients of the worker send: nothing, an unparsable
\* line, and a file that exists.
Requests == {"empty", "malformed", "file"}

\* The exit paths of handle_client_connection that end with
\* decrement_active_connections().
Decrements(req) ==
  req \in {"empty", "monitor", "file", "missing", "directory", "statfail"}

\* The status line handle_client_connection / send_file_response writes
\* (0: nothing is written).
StatusSent(req) ==
  CASE req = "empty" -> 0
    [] req = "malformed" -> 400
    [] req = "badmethod" -> 501
    [] req = "monitor" -> 200
    [] req = "dotdot" -> 403
    [] req = "file" -> 200
    [] req = "missing" -> 404
    [] req = "directory" -> 403
    [] req = "statfail" -> 500

\* The http_code passed to update_stats_with_code on that path.
CodeRecorded(req) ==
  CASE req \in {"monitor", "file"} -> 200
    [] req = "missing" -> 404
    [] OTHER -> 500

\* The headers of send_http_response.
PlainHeaders == {"Content-Type", "Content-Length", "Server", "Connection: close"}

\* The headers on that path: send_file_response adds X-Cache to a file.
HeadersSent(req) ==
  IF req = "file" THEN PlainHeaders \cup {"X-Cache"} ELSE PlainHeaders

\* The headers handle_priority_endpoint writes.
PriorityHeaders ==
  {"Content-Type", "Content-Length", "X-Priority: high", "Connection: close"}

\* The headers of send_503_response.
Headers503 == {"Content-Type", "Connection: close", "Retry-After: 1"}

\* handle_client_connection(client_fd): increment the gauge; recv; answer by
\* the kind of request; close(client_fd); on some paths decrement the gauge.
handle_client_connection(t, done) ==
  \/ /\ pc[t] = "h_inc"
     /\ active_connections' = increment_active_connections(active_connections)
     /\ Goto(t, "h_recv")
     /\ UNCHANGED <<qvars, client_fd, idx, keep_running, sock, accepted, gvars, cvars, ovars>>
  \/ /\ pc[t] = "h_recv"
     /\ \E req \in Requests :
          /\ Goto(t, IF Decrements(req) THEN "h_dec" ELSE done)
          /\ IF req = "empty"
             THEN UNCHANGED <<stats, wire, reply>>
             ELSE /\ wire' = [status |-> StatusSent(req), headers |-> HeadersSent(req)]
                  /\ reply' = Replied(reply, client_fd[t], TRUE, 1)
                  /\ stats' = update_stats_with_code(stats, 1, CodeRecorded(req))
          /\ IF req = "file" /\ cache_size_mb > 0    \* send_file_response; with
             THEN \E mem \in Mallocs :               \* cache_ptr NULL no cache call
                    cache' = send_file_response(cache, cache_size_mb > 0, doc.path,
                                                doc.content, doc.size, "GET",
                                                mem).cache
             ELSE UNCHANGED cache
     /\ sock' = CloseFd(sock, client_fd[t], "closed_thread")
     /\ client_fd' = [client_fd EXCEPT ![t] = NoFd]   \* not used after close
     /\ UNCHANGED <<qvars, idx, keep_running, active_connections,
                    accepted, gvars, last, stats_sem, completed,
                    lvars, mvars, rvars, fvars, zvars>>
  \/ /\ pc[t] = "h_dec"
     /\ active_connections' = decrement_active_connections(active_connections)
     /\ Goto(t, done)
     /\ UNCHANGED <<qvars, client_fd, idx, keep_running, sock, accepted, gvars, cvars, ovars>>

\* ------------------------------------------------------------------------
\* The worker process (server.c): Spec
\* ------------------------------------------------------------------------

\* thread_worker: dequeue until -1, handling each descriptor.
thread_worker(t) ==
  \/ connection_queue_dequeue(t, "h_inc", "exited")
  \/ handle_client_connection(t, "deq_wait")

\* worker_signal_handler: SIGTERM or SIGINT clears keep_running.
worker_signal_handler ==
  /\ keep_running = 1
  /\ pc[Main] # "exited"
  /\ keep_running' = 0
  /\ UNCHANGED <<qvars, pvars, sock, active_connections, accepted, gvars, cvars, ovars>>

\* is_priority_endpoint: recv(MSG_PEEK) on the accepted socket, on the main
\* thread and without a timeout; it returns when the client has sent bytes
\* (a priority request or another one) or has closed.
is_priority_endpoint ==
  /\ pc[Main] = "peek"
  /\ \E l \in {"prio", "prio_other", "try_wait"} : Goto(Main, l)
  /\ UNCHANGED <<qvars, client_fd, idx, wvars, accepted, gvars, cvars, ovars>>

\* The accept loop of worker_process, apart from is_priority_endpoint.
AcceptLoop ==
  \/ /\ pc[Main] = "loop"                       \* while (keep_running)
     /\ Goto(Main, IF keep_running = 1 THEN "accept" ELSE "sd_lock")
     /\ UNCHANGED <<qvars, client_fd, idx, wvars, accepted, gvars, cvars, ovars>>
  \/ /\ pc[Main] = "accept"                     \* accept() returns a connection
     /\ accepted < MaxConn
     /\ accepted' = accepted + 1
     /\ client_fd' = [client_fd EXCEPT ![Main] = accepted + 1]
     /\ sock' = [sock EXCEPT ![accepted + 1] = "open"]
     /\ Goto(Main, "peek")
     /\ UNCHANGED <<qvars, idx, keep_running, active_connections, gvars, cvars, ovars>>
  \/ /\ pc[Main] \in {"prio", "prio_other"}     \* handle_priority_endpoint
     /\ IF pc[Main] = "prio"                    \* /metrics, /health or /stats
        THEN /\ wire' = [status |-> 200, headers |-> PriorityHeaders]
             /\ reply' = Replied(reply, client_fd[Main], TRUE, 1)
             /\ stats' = update_stats_with_code(stats, 1, 200)
        ELSE /\ reply' = Replied(reply, client_fd[Main], TRUE, 0)
             /\ UNCHANGED <<stats, wire>>      \* a longer path: no branch
     /\ sock' = CloseFd(sock, client_fd[Main], "closed_prio")
     /\ Goto(Main, "loop")
     /\ UNCHANGED <<qvars, client_fd, idx, keep_running, active_connections,
                    accepted, gvars, cvars, stats_sem, completed,
                    lvars, mvars, rvars, fvars, zvars>>
  \/ /\ pc[Main] = "reject"                     \* send_503_response
     /\ stats' = update_stats_with_code(stats, 1, 503)
     /\ wire' = [status |-> 503, headers |-> Headers503]
     /\ reply' = Replied(reply, client_fd[Main], FALSE, 1)
     /\ sock' = CloseFd(sock, client_fd[Main], "closed_503")
     /\ Goto(Main, "loop")
     /\ UNCHANGED <<qvars, client_fd, idx, keep_running, active_connections,
                    accepted, gvars, cvars, stats_sem, completed,
                    lvars, mvars, rvars, fvars, zvars>>

\* Faulty variant: the joins return without waiting for the threads.
JoinThreads_nowait ==
  /\ pc[Main] = "join"
  /\ Goto(Main, "destroy")
  /\ UNCHANGED <<qvars, client_fd, idx, wvars, accepted, gvars, cvars, ovars>>

\* pthread_join of every pool thread.
JoinThreads ==
  /\ pc[Main] = "join"
  /\ \A t \in Threads : pc[t] = "exited"
  /\ Goto(Main, "destroy")
  /\ UNCHANGED <<qvars, client_fd, idx, wvars, accepted, gvars, cvars, ovars>>

\* Faulty variant: the cache is destroyed without waiting for the queue's
\* destroy, that is as soon as the joins are reached.
CacheDestroy_early ==
  /\ pc[Main] \in {"join", "fc_destroy"}
  /\ cache' = IF cache_size_mb > 0 THEN file_cache_destroy(cache) ELSE cache
  /\ Goto(Main, "exited")
  /\ UNCHANGED <<qvars, client_fd, idx, wvars, accepted, gvars, last, ovars>>

\* The end of worker_process: if (cache_ptr) file_cache_stats and
\* file_cache_destroy; return.
CacheDestroy ==
  /\ pc[Main] = "fc_destroy"
  /\ cache' = IF cache_size_mb > 0 THEN file_cache_destroy(cache) ELSE cache
  /\ Goto(Main, "exited")
  /\ UNCHANGED <<qvars, client_fd, idx, wvars, accepted, gvars, last, ovars>>

\* worker_process from the accept loop to its return.  The flag is set by
\* this thread alone, after the loop, so its connection_queue_try_enqueue
\* always finds it clear (WorkerEnqueuesBeforeShutdown).
worker_process ==
  \/ AcceptLoop
  \/ is_priority_endpoint
  \/ TryEnqueue(Main, "loop", "reject")
  \/ connection_queue_shutdown(Main, "join")
  \/ JoinThreads
  \/ connection_queue_destroy(Main, "fc_destroy")
  \/ CacheDestroy

Init ==
  /\ QueueInit
  /\ IdleState
  /\ pc = [p \in Procs |-> IF p \in Threads THEN "deq_wait"
                           ELSE IF p = Main THEN "loop"
                           ELSE "off"]
  /\ cache = file_cache_init(MaxCacheMb)
  /\ last = [put |-> NoPut, get |-> NoGet]

Next ==
  \/ worker_process
  \/ \E t \in Threads : thread_worker(t)
  \/ worker_signal_handler

Spec == Init /\ [][Next]_vars

\* The steps of the worker that need no new connection: everything but the
\* return of accept().  Accepted clients send their request.
WorkerOwnSteps ==
  \/ AcceptLoop /\ pc[Main] # "accept"
  \/ is_priority_endpoint
  \/ TryEnqueue(Main, "loop", "reject")
  \/ connection_queue_shutdown(Main, "join")
  \/ JoinThreads
  \/ connection_queue_destroy(Main, "fc_destroy")
  \/ CacheDestroy
  \/ \E t \in Threads : thread_worker(t)

\* The worker with its threads scheduled and every request handler
\* terminating; no assumption that another client connects.
FairWorkerSpec == Spec /\ WF_vars(WorkerOwnSteps)

\* ------------------------------------------------------------------------
\* The worker with a health probe: after the MaxConn connections of the
\* backlog a client connects and sends "GET /health" at once.  Every other
\* client may stay silent, so is_priority_endpoint's recv returns for it
\* only if it sends.
\* ------------------------------------------------------------------------

\* accept() returns the probe's connection.
AcceptProbe ==
  /\ pc[Main] = "accept"
  /\ accepted = MaxConn
  /\ accepted' = Probe
  /\ client_fd' = [client_fd EXCEPT ![Main] = Probe]
  /\ sock' = [sock EXCEPT ![Probe] = "open"]
  /\ Goto(Main, "peek")
  /\ UNCHANGED <<qvars, idx, keep_running, active_connections, gvars, cvars, ovars>>

\* Every step of the worker that needs nothing from a client.
WorkerSteps ==
  \/ AcceptLoop
  \/ AcceptProbe
  \/ TryEnqueue(Main, "loop", "reject")
  \/ connection_queue_shutdown(Main, "join")
  \/ JoinThreads
  \/ connection_queue_destroy(Main, "fc_destroy")
  \/ CacheDestroy
  \/ \E t \in Threads : thread_worker(t)

\* is_priority_endpoint, matching "GET /health" for the probe.
ProbePeek ==
  /\ is_priority_endpoint
  /\ client_fd[Main] = Probe => pc'[Main] = "prio"

ProbeNext ==
  \/ WorkerSteps
  \/ ProbePeek
  \/ worker_signal_handler

\* The worker's threads keep running, connections waiting in the backlog
\* are delivered to accept(), and the probe's bytes arrive.
FairProbeSpec ==
  /\ Init
  /\ [][ProbeNext]_vars
  /\ WF_vars(WorkerSteps)
  /\ WF_vars(ProbePeek /\ client_fd[Main] = Probe)

\* ------------------------------------------------------------------------
\* The queue API under arbitrary callers (QSpec): a producer that calls
\* either enqueue function, consumers that call dequeue until it returns -1,
\* and a thread that calls shutdown at any moment.
\* ------------------------------------------------------------------------
QInit ==
  /\ QueueInit
  /\ IdleState
  /\ pc = [p \in Procs |-> IF p \in Consumers THEN "deq_wait"
                           ELSE IF p \in {Producer, Closer} THEN "idle"
                           ELSE "off"]
  /\ cache = file_cache_init(MaxCacheMb)
  /\ last = [put |-> NoPut, get |-> NoGet]

\* The producer calls connection_queue_enqueue or connection_queue_try_enqueue
\* with the next descriptor.
ProducerCall ==
  /\ pc[Producer] = "idle"
  /\ accepted < MaxConn
  /\ accepted' = accepted + 1
  /\ client_fd' = [client_fd EXCEPT ![Producer] = accepted + 1]
  /\ \E l \in {"enq_wait", "try_wait"} : Goto(Producer, l)
  /\ UNCHANGED <<qvars, idx, wvars, gvars, cvars, ovars>>

\* Some thread calls connection_queue_shutdown.
CloserCall ==
  /\ pc[Closer] = "idle"
  /\ Goto(Closer, "sd_lock")
  /\ UNCHANGED <<qvars, client_fd, idx, wvars, accepted, gvars, cvars, ovars>>

QProducer ==
  \/ connection_queue_enqueue(Producer, "idle", "idle")
  \/ connection_queue_try_enqueue(Producer, "idle", "idle")

\* A consumer takes what connection_queue_dequeue returned and calls again.
ConsumerCall(c) ==
  /\ pc[c] = "got"
  /\ client_fd' = [client_fd EXCEPT ![c] = NoFd]
  /\ Goto(c, "deq_wait")
  /\ UNCHANGED <<qvars, idx, wvars, accepted, gvars, cvars, ovars>>

QConsumer(c) ==
  \/ connection_queue_dequeue(c, "got", "exited")
  \/ ConsumerCall(c)

QCloser == connection_queue_shutdown(Closer, "exited")

QNext ==
  \/ ProducerCall
  \/ QProducer
  \/ \E c \in Consumers : QConsumer(c)
  \/ CloserCall
  \/ QCloser

QSpec == QInit /\ [][QNext]_vars

\* A call in progress keeps running whenever it can take a step.
FairQSpec ==
  /\ QSpec
  /\ WF_vars(QProducer \/ QCloser \/ \E c \in Consumers : QConsumer(c))

\* ------------------------------------------------------------------------
\* The mutex sections of the queue API, the size query and the destroy scan
\* included: SizeSpec
\* ------------------------------------------------------------------------

\* Faulty variant: the size is computed without taking the mutex.
connection_queue_size_nolock(p, done) ==
  \/ /\ pc[p] = "sz_lock"
     /\ Goto(p, "sz_cs")
     /\ UNCHANGED <<qvars, client_fd, idx, wvars, accepted, gvars, cvars, ovars>>
  \/ /\ pc[p] = "sz_cs"
     /\ size' = IF tail >= head THEN tail - head ELSE QUEUE_SIZE - head + tail
     /\ Goto(p, done)
     /\ UNCHANGED <<qvars, client_fd, idx, wvars, accepted, gvars, cvars,
                    svars, hvars, lvars, mvars, rvars, fvars, borrow, rwlock>>

\* connection_queue_size; done is the caller's label after the return.
connection_queue_size(p, done) ==
  \/ /\ pc[p] = "sz_lock"                       \* sem_wait(&mutex)
     /\ mutex > 0
     /\ mutex' = mutex - 1
     /\ Goto(p, "sz_cs")
     /\ UNCHANGED <<connections, head, tail, empty_slots, filled_slots, shutdown,
                    client_fd, idx, wvars, accepted, gvars, cvars, ovars>>
  \/ /\ pc[p] = "sz_cs"                         \* size = ..; sem_post(&mutex)
     /\ size' = IF tail >= head THEN tail - head ELSE QUEUE_SIZE - head + tail
     /\ mutex' = mutex + 1
     /\ Goto(p, done)
     /\ UNCHANGED <<connections, head, tail, empty_slots, filled_slots, shutdown,
                    client_fd, idx, wvars, accepted, gvars, cvars,
                    svars, hvars, lvars, mvars, rvars, fvars, borrow, rwlock>>

\* connection_queue_destroy with its mutex section as steps of its own:
\* sem_wait(&mutex); the scan that closes and resets the slots;
\* sem_post(&mutex).
DestroyScan(p, done) ==
  \/ /\ pc[p] = "dst_lock"                      \* sem_wait(&mutex)
     /\ mutex > 0
     /\ mutex' = mutex - 1
     /\ Goto(p, "dst_scan")
     /\ UNCHANGED <<connections, head, tail, empty_slots, filled_slots, shutdown,
                    client_fd, idx, wvars, accepted, gvars, cvars, ovars>>
  \/ /\ pc[p] = "dst_scan"                      \* the for loop; sem_post(&mutex)
     /\ sock' = [c \in Conns |->
                  IF SlotsOf(c) = {} THEN sock[c]
                  ELSE IF Cardinality(SlotsOf(c)) = 1
                       THEN CloseFd(sock, c, "closed_destroy")[c]
                       ELSE "twice"]
     /\ connections' = [s \in Slots |-> NoFd]
     /\ mutex' = mutex + 1
     /\ Goto(p, done)
     /\ UNCHANGED <<head, tail, empty_slots, filled_slots, shutdown,
                    client_fd, idx, keep_running, active_connections, accepted,
                    gvars, cvars, ovars>>

\* The consumers of SizeSpec.
Takers == {c \in Consumers : c[2] <= 2}

\* The callers that are inside connection_queue_destroy or past it.
Destroying == pc[Closer] \in {"dst_lock", "dst_scan", "exited"}

SizeInit ==
  /\ QueueInit
  /\ IdleState
  /\ pc = [p \in Procs |-> IF p \in Takers THEN "deq_wait"
                           ELSE IF p \in {Producer, Closer, Monitor} THEN "idle"
                           ELSE "off"]
  /\ cache = file_cache_init(MaxCacheMb)
  /\ last = [put |-> NoPut, get |-> NoGet]

\* The producer calls while the queue exists.
SizeProducerCall == ~Destroying /\ ProducerCall

\* Some thread asks for the size while the queue exists.
MonitorCall ==
  /\ pc[Monitor] = "idle"
  /\ ~Destroying
  /\ Goto(Monitor, "sz_lock")
  /\ UNCHANGED <<qvars, client_fd, idx, wvars, accepted, gvars, cvars, ovars>>

QMonitor == connection_queue_size(Monitor, "idle")

\* The thread that shut the queue down destroys it once no other call is
\* in progress and the consumers have returned.
DestroyCall ==
  /\ pc[Closer] = "sd_done"
  /\ pc[Producer] = "idle"
  /\ pc[Monitor] = "idle"
  /\ \A c \in Takers : pc[c] = "exited"
  /\ Goto(Closer, "dst_lock")
  /\ UNCHANGED <<qvars, client_fd, idx, wvars, accepted, gvars, cvars, ovars>>

SizeCloser ==
  \/ connection_queue_shutdown(Closer, "sd_done")
  \/ DestroyScan(Closer, "exited")

SizeNext ==
  \/ SizeProducerCall
  \/ QProducer
  \/ \E c \in Takers : QConsumer(c)
  \/ MonitorCall
  \/ QMonitor
  \/ CloserCall
  \/ DestroyCall
  \/ SizeCloser

SizeSpec == SizeInit /\ [][SizeNext]_vars

\* ------------------------------------------------------------------------
\* The cache API under arbitrary calls: CacheSpec
\* ------------------------------------------------------------------------
CacheInit ==
  /\ QueueInit
  /\ IdleState
  /\ pc = [p \in Procs |-> "off"]
  /\ \E mb \in 1..MaxCacheMb : cache = file_cache_init(mb)
  /\ last = [put |-> NoPut, get |-> NoGet]

\* A call of file_cache_put; last.put remembers it if it succeeded.
Put ==
  \E path \in Paths, content \in Contents, content_size \in Sizes, mem \in BOOLEAN :
    LET r == file_cache_put(cache, path, content, content_size, mem)
    IN /\ cache' = r.cache
       /\ last' = [put |-> IF r.ret = 0
                           THEN [ok |-> TRUE, path |-> path, content |-> content,
                                 size |-> content_size]
                           ELSE NoPut,
                   get |-> NoGet]
       /\ UNCHANGED <<qvars, pvars, wvars, accepted, gvars, ovars>>

\* A call of file_cache_get; last.get remembers what it returned.
Get ==
  \E path \in Paths :
    LET r == file_cache_get(cache, path)
    IN /\ cache' = r.cache
       /\ last' = [last EXCEPT !.get = [called |-> TRUE, path |-> path, ret |-> r.ret,
                                        content |-> r.content, size |-> r.size]]
       /\ UNCHANGED <<qvars, pvars, wvars, accepted, gvars, ovars>>

CacheNext == Put \/ Get

CacheSpec == CacheInit /\ [][CacheNext]_vars

\* ------------------------------------------------------------------------
\* The cache's list under arbitrary calls, the arguments of every put
\* remembered whether it succeeded or not: LruSpec.  The bytes stored do
\* not bear on the list, so every put carries the same content.
\* ------------------------------------------------------------------------

\* A call of file_cache_put; last.put remembers its arguments and whether
\* it returned 0.
LruPut ==
  \E path \in Paths, content_size \in Sizes, mem \in BOOLEAN :
    LET r == file_cache_put(cache, path, "u", content_size, mem)
    IN /\ cache' = r.cache
       /\ last' = [put |-> [ok |-> r.ret = 0, path |-> path, content |-> "u",
                            size |-> content_size],
                   get |-> NoGet]
       /\ UNCHANGED <<qvars, pvars, wvars, accepted, gvars, ovars>>

LruNext == LruPut \/ Get

LruSpec == CacheInit /\ [][LruNext]_vars

\* ------------------------------------------------------------------------
\* The statistics API under concurrent callers: StatsSpec.  The record is
\* shared by every worker process (mmap MAP_SHARED) and its semaphore is
\* process-shared, so a caller is any thread of any worker.  Each C statement
\* on the record is a load into the caller's registers and a store.
\* ------------------------------------------------------------------------
Callers == Threads \cup {Main}

\* ------------------------------------------------------------------------
\* Serving one document through the per-worker caches (send_file_response)
\* ------------------------------------------------------------------------

\* A pool thread of worker w answers a request for the document.
ServeFile(w) ==
  /\ Len(served) < MaxServes
  /\ worker_cache_init(cache_size_mb).ok
  /\ \E method \in FileMethods, mem \in Mallocs :
       LET r == send_file_response(wcache[w], cache_ptr[w], doc.path, doc.content,
                                   doc.size, method, mem)
       IN /\ wcache' = [wcache EXCEPT ![w] = r.cache]
          /\ served' = Append(served,
                              [worker |-> w, method |-> method, mem |-> mem,
                               status |-> 200, xcache |-> r.xcache,
                               content |-> r.content, body |-> r.body])
          /\ wire' = [status |-> 200, headers |-> PlainHeaders \cup {r.xcache}]
          /\ stats' = update_stats_with_code(stats, r.size, 200)
  /\ UNCHANGED <<qvars, pvars, wvars, accepted, gvars, cvars, stats_sem, completed,
                 reply, lvars, mvars, rvars, cache_size_mb, cache_ptr, doc, zvars>>

\* The configuration is read and every worker sets its own cache up before
\* the first request.
ServeConfig(mb, path, file_size) ==
  /\ cache_size_mb = mb
  /\ cache_ptr = [w \in Workers |-> worker_cache_init(mb).ptr]
  /\ wcache = [w \in Workers |-> worker_cache_init(mb).cache]
  /\ doc = [path |-> path, size |-> file_size, content |-> "u"]

ServeInit ==
  /\ QueueInit
  /\ IdleCore
  /\ pc = [p \in Procs |-> "off"]
  /\ cache = file_cache_init(MaxCacheMb)
  /\ last = [put |-> NoPut, get |-> NoGet]
  /\ served = <<>>
  /\ \E mb \in 0..MaxCacheMb, path \in DocPaths, file_size \in Sizes :
       ServeConfig(mb, path, file_size)

ServeNext == \E w \in Workers : ServeFile(w)

ServeSpec == ServeInit /\ [][ServeNext]_vars

\* ------------------------------------------------------------------------
\* The worker process with its cache enabled: WorkerCacheSpec
\* ------------------------------------------------------------------------
WorkerCacheInit ==
  /\ QueueInit
  /\ IdleCore
  /\ pc = [p \in Procs |-> IF p \in Threads THEN "deq_wait"
                           ELSE IF p = Main THEN "loop"
                           ELSE "off"]
  /\ cache = worker_cache_init(MaxCacheMb).cache
  /\ last = [put |-> NoPut, get |-> NoGet]
  /\ served = <<>>
  /\ ServeConfig(MaxCacheMb, <<"a">>, 1)

WorkerCacheSpec == WorkerCacheInit /\ [][Next]_vars

\* ------------------------------------------------------------------------
\* The worker with a record, for every connection, of what was read from
\* it and how many responses were written to it: ReplySpec
\* ------------------------------------------------------------------------
ReplyInit ==
  /\ QueueInit
  /\ IdleBase
  /\ reply = [c \in Conns |-> NoReply]
  /\ cache_size_mb = 0
  /\ cache_ptr = [w \in Workers |-> FALSE]
  /\ wcache = [w \in Workers |-> file_cache_init(0)]
  /\ doc = [path |-> <<"a">>, size |-> 1, content |-> "u"]
  /\ served = <<>>
  /\ pc = [p \in Procs |-> IF p \in Threads THEN "deq_wait"
                           ELSE IF p = Main THEN "loop"
                           ELSE "off"]
  /\ cache = file_cache_init(MaxCacheMb)
  /\ last = [put |-> NoPut, get |-> NoGet]

ReplySpec == ReplyInit /\ [][Next]_vars

\* ------------------------------------------------------------------------
\* Pool threads in send_file_response on one cache (http.c, file_cache.c):
\* BorrowSpec.  file_cache_get and file_cache_put each run under the write
\* lock and are one step; the send() of a hit runs after the unlock.
\* ------------------------------------------------------------------------

\* The cells whose content buffer file_cache_put frees: the replaced buffer
\* of an existing key, or the buffers of the entries evict_lru removes.
FreedBy(c, path, content_size, mem) ==
  IF content_size = 0 \/ content_size > MAX_FILE_SIZE \/ content_size > c.max_size
  THEN {}
  ELSE IF find_entry(c, path) # NULL
       THEN IF mem THEN {find_entry(c, path)} ELSE {}
       ELSE {n \in NodeIds :
               c.ent[n].used /\ ~make_space(c, content_size).ent[n].used}

\* What a send() from a buffer puts on the wire: the buffer's bytes, or,
\* from a freed buffer, whatever the heap holds there.
Garbage == "?"
SentFrom(b) ==
  IF b.freed THEN Contents \cup {Garbage} ELSE {cache.ent[b.cached_content].content}

\* if (cache) file_cache_get(cache, full_path, &cached_content, &cached_size)
SendFileGet(t) ==
  /\ pc[t] = "b_get"
  /\ \E path \in Paths :
       LET r == file_cache_get(cache, path)
       IN /\ cache' = r.cache
          /\ borrow' = [borrow EXCEPT ![t] =
                          [full_path |-> path,
                           cached_content |-> find_entry(cache, path),
                           freed |-> FALSE, out |-> ""]]
          /\ Goto(t, IF r.ret = 0 THEN "b_send" ELSE "b_put")
  /\ UNCHANGED <<qvars, client_fd, idx, wvars, accepted, gvars, last,
                 svars, hvars, lvars, mvars, rvars, fvars, size, rwlock>>

\* The hit: send(client_fd, cached_content, cached_size, 0) and return.
SendFileHit(t) ==
  /\ pc[t] = "b_send"
  /\ \E bytes \in SentFrom(borrow[t]) :
       borrow' = [borrow EXCEPT ![t].out = bytes]
  /\ Goto(t, "b_get")
  /\ UNCHANGED <<qvars, client_fd, idx, wvars, accepted, gvars, cvars,
                 svars, hvars, lvars, mvars, rvars, fvars, size, rwlock>>

\* The miss: the file is read into a fresh buffer and handed to
\* file_cache_put, which frees what it replaces or evicts.
SendFileMiss(t) ==
  /\ pc[t] = "b_put"
  /\ \E content \in Contents, mem \in BOOLEAN :
       /\ cache' = file_cache_put(cache, borrow[t].full_path, content, 1, mem).cache
       /\ borrow' = [u \in Threads |->
                       IF u = t THEN [borrow[t] EXCEPT !.out = content]
                       ELSE IF borrow[u].cached_content
                                 \in FreedBy(cache, borrow[t].full_path, 1, mem)
                            THEN [borrow[u] EXCEPT !.freed = TRUE]
                            ELSE borrow[u]]
  /\ Goto(t, "b_get")
  /\ UNCHANGED <<qvars, client_fd, idx, wvars, accepted, gvars, last,
                 svars, hvars, lvars, mvars, rvars, fvars, size, rwlock>>

BorrowInit ==
  /\ QueueInit
  /\ IdleState
  /\ pc = [p \in Procs |-> IF p \in Threads THEN "b_get" ELSE "off"]
  /\ cache = file_cache_init(MaxCacheMb)
  /\ last = [put |-> NoPut, get |-> NoGet]

BorrowNext == \E t \in Threads : SendFileGet(t) \/ SendFileHit(t) \/ SendFileMiss(t)

BorrowSpec == BorrowInit /\ [][BorrowNext]_vars


\* The byte counts and status codes passed to update_stats_with_code.
ByteCounts == {1, INT_MAX}
Codes == {200, 503}

\* Everything the statistics and logger calls leave alone.
nonstats ==
  <<qvars, client_fd, idx, keep_running, sock, accepted, gvars, cvars, hvars, mvars,
    rvars, fvars, zvars>>

StatsInit ==
  /\ QueueInit
  /\ IdleState
  /\ pc = [p \in Procs |-> IF p \in Callers THEN "idle" ELSE "off"]
  /\ cache = file_cache_init(MaxCacheMb)
  /\ last = [put |-> NoPut, get |-> NoGet]

\* A caller enters one of the functions of stats.c.
StatsCall(p) ==
  /\ pc[p] = "idle"
  /\ completed.issued < MaxCalls
  /\ completed' = [completed EXCEPT !.issued = @ + 1]
  /\ \/ /\ \E l \in {"inc_wait", "dec_wait", "rd_wait"} : Goto(p, l)
        /\ UNCHANGED reg
     \/ /\ Goto(p, "upd_wait")
        /\ \E b \in ByteCounts, c \in Codes :
             reg' = [reg EXCEPT ![p] = [NoReg EXCEPT !.bytes = b, !.code = c]]
  /\ UNCHANGED <<nonstats, active_connections, stats, stats_sem, log_sem>>

\* sem_wait(&global_stats->semaphore)
StatsSemWait(p, from, to) ==
  /\ pc[p] = from
  /\ stats_sem > 0
  /\ stats_sem' = stats_sem - 1
  /\ Goto(p, to)
  /\ UNCHANGED <<nonstats, active_connections, stats, completed, lvars>>

\* sem_post(&global_stats->semaphore) and return; a returning
\* update_stats_with_code(b, 200) is counted in completed.
StatsSemPost(p, from) ==
  /\ pc[p] = from
  /\ stats_sem' = stats_sem + 1
  /\ completed' = IF from = "upd_post" /\ reg[p].code = 200
                  THEN [completed EXCEPT !.calls = @ + 1, !.bytes = @ + reg[p].bytes]
                  ELSE completed
  /\ reg' = [reg EXCEPT ![p] = NoReg]
  /\ Goto(p, "idle")
  /\ UNCHANGED <<nonstats, active_connections, stats, log_sem>>

\* log_message: write the line to the log file under the logger's semaphore.
log_message(p, l_wait, l_cs, l_post, done) ==
  \/ /\ pc[p] = l_wait                           \* sem_wait(log_sem)
     /\ log_sem > 0
     /\ log_sem' = log_sem - 1
     /\ Goto(p, l_cs)
     /\ UNCHANGED <<nonstats, active_connections, svars, reg>>
  \/ /\ pc[p] = l_cs                             \* fprintf, fflush
     /\ Goto(p, l_post)
     /\ UNCHANGED <<nonstats, active_connections, svars, lvars>>
  \/ /\ pc[p] = l_post                           \* sem_post(log_sem)
     /\ log_sem' = log_sem + 1
     /\ Goto(p, done)
     /\ UNCHANGED <<nonstats, active_connections, svars, reg>>

\* increment_active_connections()
StatsIncrement(p) ==
  \/ StatsSemWait(p, "inc_wait", "inc_load")
  \/ /\ pc[p] = "inc_load"
     /\ reg' = [reg EXCEPT ![p].ac = active_connections]
     /\ Goto(p, "inc_store")
     /\ UNCHANGED <<nonstats, active_connections, svars, log_sem>>
  \/ /\ pc[p] = "inc_store"
     /\ active_connections' = increment_active_connections(reg[p].ac)
     /\ Goto(p, "inc_post")
     /\ UNCHANGED <<nonstats, svars, lvars>>
  \/ StatsSemPost(p, "inc_post")

\* decrement_active_connections()
StatsDecrement(p) ==
  \/ StatsSemWait(p, "dec_wait", "dec_load")
  \/ /\ pc[p] = "dec_load"
     /\ reg' = [reg EXCEPT ![p].ac = active_connections]
     /\ Goto(p, "dec_store")
     /\ UNCHANGED <<nonstats, active_connections, svars, log_sem>>
  \/ /\ pc[p] = "dec_store"
     /\ active_connections' = decrement_active_connections(reg[p].ac)
     /\ Goto(p, "dec_post")
     /\ UNCHANGED <<nonstats, svars, lvars>>
  \/ StatsSemPost(p, "dec_post")

\* update_stats_with_code(bytes, http_code), with its summary line every
\* StatsLogEvery requests.
StatsUpdate(p) ==
  \/ StatsSemWait(p, "upd_wait", "upd_load")
  \/ /\ pc[p] = "upd_load"
     /\ reg' = [reg EXCEPT ![p].st = stats]
     /\ Goto(p, "upd_store")
     /\ UNCHANGED <<nonstats, active_connections, svars, log_sem>>
  \/ /\ pc[p] = "upd_store"
     /\ stats' = update_stats_with_code(reg[p].st, reg[p].bytes, reg[p].code)
     /\ Goto(p, IF stats'.total_requests % StatsLogEvery = 0
                THEN "upd_log_wait" ELSE "upd_post")
     /\ UNCHANGED <<nonstats, active_connections, stats_sem, completed, lvars>>
  \/ log_message(p, "upd_log_wait", "upd_log_cs", "upd_log_post", "upd_post")
  \/ StatsSemPost(p, "upd_post")

\* print_global_stats(): read the counters under the semaphore and log them.
print_global_stats(p) ==
  \/ StatsSemWait(p, "rd_wait", "rd_load")
  \/ /\ pc[p] = "rd_load"
     /\ reg' = [reg EXCEPT ![p].st = stats, ![p].ac = active_connections]
     /\ Goto(p, "rd_log_wait")
     /\ UNCHANGED <<nonstats, active_connections, svars, log_sem>>
  \/ log_message(p, "rd_log_wait", "rd_log_cs", "rd_log_post", "rd_post")
  \/ StatsSemPost(p, "rd_post")

StatsNext ==
  \E p \in Callers :
    \/ StatsCall(p)
    \/ StatsIncrement(p)
    \/ StatsDecrement(p)
    \/ StatsUpdate(p)
    \/ print_global_stats(p)

StatsSpec == StatsInit /\ [][StatsNext]_vars

\* ------------------------------------------------------------------------
\* The worker with every lock of its threads taken step by step (queue
\* semaphores, cache rwlock, statistics semaphore, logger semaphore):
\* LockSpec.  What the calls compute is left out; only where each lock is
\* waited for, held and released is kept.
\* ------------------------------------------------------------------------

\* Faulty variant: the section returns without sem_post.
StatsRelease_leak(p, from, to) ==
  /\ pc[p] = from
  /\ stats_sem' = stats_sem
  /\ Goto(p, to)
  /\ UNCHANGED <<nonstats, active_connections, stats, completed, lvars>>

\* sem_post(&global_stats->semaphore)
StatsRelease(p, from, to) ==
  /\ pc[p] = from
  /\ stats_sem' = stats_sem + 1
  /\ Goto(p, to)
  /\ UNCHANGED <<nonstats, active_connections, stats, completed, lvars>>

\* pthread_rwlock_wrlock(&cache->lock)
CacheLock(p, from, to) ==
  /\ pc[p] = from
  /\ rwlock = 0
  /\ rwlock' = 1
  /\ Goto(p, to)
  /\ UNCHANGED <<qvars, client_fd, idx, wvars, accepted, gvars, cvars,
                 svars, hvars, lvars, mvars, rvars, fvars, size, borrow>>

\* pthread_rwlock_unlock(&cache->lock); tos are the places the caller can be
\* at next.
CacheUnlock(p, from, tos) ==
  /\ pc[p] = from
  /\ rwlock' = 0
  /\ \E l \in tos : Goto(p, l)
  /\ UNCHANGED <<qvars, client_fd, idx, wvars, accepted, gvars, cvars,
                 svars, hvars, lvars, mvars, rvars, fvars, size, borrow>>

\* A test inside p's code that takes it to one of tos, no lock touched.
Branch(p, from, tos) ==
  /\ pc[p] = from
  /\ \E l \in tos : Goto(p, l)
  /\ UNCHANGED <<qvars, client_fd, idx, wvars, accepted, gvars, cvars, ovars>>

\* close(client_fd) by p.
CloseStep(p, from, by, tos) ==
  /\ pc[p] = from
  /\ sock' = CloseFd(sock, client_fd[p], by)
  /\ \E l \in tos : Goto(p, l)
  /\ UNCHANGED <<qvars, client_fd, idx, keep_running, active_connections,
                 accepted, gvars, cvars, ovars>>

\* update_stats_with_code: the section, with log_message inside it when the
\* request count is a multiple of 15.
LockedUpdate(p, done) ==
  \/ StatsSemWait(p, "k_upd", "k_upd_cs")
  \/ Branch(p, "k_upd_cs", {"k_ul_wait", "k_upd_end"})
  \/ log_message(p, "k_ul_wait", "k_ul_cs", "k_ul_post", "k_upd_end")
  \/ StatsRelease(p, "k_upd_end", done)

\* file_cache_get: the write lock, and after the unlock the HIT line.
LockedGet(p, hit, miss) ==
  \/ CacheLock(p, "k_get", "k_get_cs")
  \/ CacheUnlock(p, "k_get_cs", {"k_hit_wait", miss})
  \/ log_message(p, "k_hit_wait", "k_hit_cs", "k_hit_post", hit)

\* file_cache_put: the write lock, evict_lru's log_message inside it when
\* make_space evicts, and after the unlock the PUT or UPDATED line.
LockedPut(p, done) ==
  \/ CacheLock(p, "k_put", "k_put_cs")
  \/ Branch(p, "k_put_cs", {"k_ev_wait", "k_put_end"})
  \/ log_message(p, "k_ev_wait", "k_ev_cs", "k_ev_post", "k_put_end")
  \/ CacheUnlock(p, "k_put_end", {"k_pl_wait"})
  \/ log_message(p, "k_pl_wait", "k_pl_cs", "k_pl_post", done)

\* handle_client_connection with send_file_response on a pool thread:
\* increment_active_connections, the request line logged, the cache looked
\* up and on a miss filled, update_stats_with_code, close, then
\* add_response_time and decrement_active_connections.
LockedHandler(t, done) ==
  \/ StatsSemWait(t, "k_inc", "k_inc_cs")
  \/ StatsRelease(t, "k_inc_cs", "k_rq_wait")
  \/ log_message(t, "k_rq_wait", "k_rq_cs", "k_rq_post", "k_get")
  \/ LockedGet(t, "k_upd", "k_put")
  \/ LockedPut(t, "k_upd")
  \/ LockedUpdate(t, "k_close")
  \/ CloseStep(t, "k_close", "closed_thread", {"k_art"})
  \/ StatsSemWait(t, "k_art", "k_art_cs")
  \/ StatsRelease(t, "k_art_cs", "k_dec")
  \/ StatsSemWait(t, "k_dec", "k_dec_cs")
  \/ StatsRelease(t, "k_dec_cs", done)

\* thread_worker: dequeue, handle, and the exit line once dequeue returned -1.
LockedThread(t) ==
  \/ connection_queue_dequeue(t, "k_inc", "k_xl_wait")
  \/ LockedHandler(t, "deq_wait")
  \/ log_message(t, "k_xl_wait", "k_xl_cs", "k_xl_post", "exited")

\* The accept loop: the test of keep_running, accept(), and the route the
\* connection takes (handle_priority_endpoint or the queue).
LockedAccept ==
  \/ /\ pc[Main] = "k_loop"
     /\ Goto(Main, IF keep_running = 1 THEN "k_accept" ELSE "sd_lock")
     /\ UNCHANGED <<qvars, client_fd, idx, wvars, accepted, gvars, cvars, ovars>>
  \/ /\ pc[Main] = "k_accept"
     /\ accepted < MaxConn
     /\ accepted' = accepted + 1
     /\ client_fd' = [client_fd EXCEPT ![Main] = accepted + 1]
     /\ sock' = [sock EXCEPT ![accepted + 1] = "open"]
     /\ \E l \in {"k_upd", "try_wait"} : Goto(Main, l)
     /\ UNCHANGED <<qvars, idx, keep_running, active_connections, gvars, cvars, ovars>>

\* worker_process: the accept loop; handle_priority_endpoint and
\* send_503_response, both update_stats_with_code and close, the 503 with
\* its "Queue full" line; after the loop connection_queue_shutdown with its
\* log line, the joins, connection_queue_destroy and the cache's end.  The
\* flag is set by this thread alone, after the loop, so its try_enqueue
\* always finds it clear.
LockedMain ==
  \/ LockedAccept
  \/ TryEnqueue(Main, "k_loop", "k_upd")
  \/ LockedUpdate(Main, "k_close")
  \/ CloseStep(Main, "k_close", "closed_503", {"k_loop", "k_rl_wait"})
  \/ log_message(Main, "k_rl_wait", "k_rl_cs", "k_rl_post", "k_loop")
  \/ connection_queue_shutdown(Main, "k_sl_wait")
  \/ log_message(Main, "k_sl_wait", "k_sl_cs", "k_sl_post", "join")
  \/ JoinThreads
  \/ connection_queue_destroy(Main, "fc_destroy")
  \/ CacheDestroy

LockInit ==
  /\ QueueInit
  /\ IdleCore
  /\ pc = [p \in Procs |-> IF p \in Threads THEN "deq_wait"
                           ELSE IF p = Main THEN "k_loop"
                           ELSE "off"]
  /\ cache = worker_cache_init(MaxCacheMb).cache
  /\ last = [put |-> NoPut, get |-> NoGet]
  /\ served = <<>>
  /\ ServeConfig(MaxCacheMb, <<"a">>, 1)

\* The steps of the worker's own threads.
LockSteps == LockedMain \/ \E t \in Threads : LockedThread(t)

LockNext == LockSteps \/ worker_signal_handler

LockSpec == LockInit /\ [][LockNext]_vars


\* ------------------------------------------------------------------------
\* The master process (main.c) and its workers: MasterSpec.  A worker is
\* followed through the places of worker_process where a signal matters:
\* "forked" (running with the handlers inherited from the master, before
\* its own signal() calls), "loop" (at the test of while (keep_running)),
\* "accept" (blocked in accept), "busy" (between accept's return and the
\* next test), "stopping" (after the loop) and "exited".
\* ------------------------------------------------------------------------
EXIT_SUCCESS == 0
EXIT_FAILURE == 1

nonmaster ==
  <<qvars, pvars, wvars, accepted, gvars, cvars, svars, hvars, lvars, rvars,
    fvars, zvars>>

MasterInit ==
  /\ QueueInit
  /\ IdleState
  /\ pc = [p \in Procs |-> "off"]
  /\ cache = file_cache_init(MaxCacheMb)
  /\ last = [put |-> NoPut, get |-> NoGet]

\* signal_handler (main.c): SIGINT or SIGTERM reaches the master.
signal_handler ==
  /\ mpc \notin {"returned", "failed"}
  /\ master_keep_running = 1
  /\ master_keep_running' = 0
  /\ UNCHANGED <<nonmaster, mpc, mi, wst, w_keep_running, sigpend,
                 global_stats_mapped, server_fd_open, exit_code>>

\* for (i = 0; i < num_workers; i++) fork(): the child starts worker_process,
\* or fork fails and the master calls exit(EXIT_FAILURE).
MasterFork ==
  /\ mpc = "fork"
  /\ \/ /\ mi < NumWorkers
        /\ wst' = [wst EXCEPT ![mi + 1] = "forked"]
        /\ mi' = mi + 1
        /\ UNCHANGED <<mpc, exit_code>>
     \/ /\ mi < NumWorkers
        /\ mpc' = "failed"
        /\ exit_code' = EXIT_FAILURE
        /\ UNCHANGED <<mi, wst>>
     \/ /\ mi = NumWorkers
        /\ mpc' = "wait"
        /\ UNCHANGED <<mi, wst, exit_code>>
  /\ UNCHANGED <<nonmaster, master_keep_running, w_keep_running, sigpend,
                 global_stats_mapped, server_fd_open>>

\* while (keep_running) { sleep(1); print_global_stats(); waitpid(WNOHANG) }
MasterWait ==
  \/ /\ mpc = "wait"
     /\ mpc' = IF master_keep_running = 1 THEN "sleep" ELSE "kill"
     /\ mi' = 0
     /\ UNCHANGED <<nonmaster, master_keep_running, wst, w_keep_running, sigpend,
                    global_stats_mapped, server_fd_open, exit_code>>
  \/ /\ mpc = "sleep"
     /\ mpc' = "wait"
     /\ UNCHANGED <<nonmaster, mi, master_keep_running, wst, w_keep_running,
                    sigpend, global_stats_mapped, server_fd_open, exit_code>>

\* kill(worker_pids[i], SIGTERM) for each worker; a signal sent to a process
\* that has exited is lost.
MasterKill ==
  /\ mpc = "kill"
  /\ IF mi < NumWorkers
     THEN /\ sigpend' = [sigpend EXCEPT ![mi + 1] = (wst[mi + 1] # "exited")]
          /\ mi' = mi + 1
          /\ UNCHANGED mpc
     ELSE /\ mpc' = "reap"
          /\ mi' = 0
          /\ UNCHANGED sigpend
  /\ UNCHANGED <<nonmaster, master_keep_running, wst, w_keep_running,
                 global_stats_mapped, server_fd_open, exit_code>>

\* Faulty variant: waitpid returns without waiting (WNOHANG).
MasterReap_nohang ==
  /\ mpc = "reap"
  /\ IF mi < NumWorkers
     THEN /\ mi' = mi + 1
          /\ UNCHANGED mpc
     ELSE /\ mpc' = "close"
          /\ UNCHANGED mi
  /\ UNCHANGED <<nonmaster, master_keep_running, wst, w_keep_running, sigpend,
                 global_stats_mapped, server_fd_open, exit_code>>

\* waitpid(worker_pids[i], NULL, 0) for each worker: returns once that
\* worker has exited.
MasterReap ==
  /\ mpc = "reap"
  /\ IF mi < NumWorkers
     THEN /\ wst[mi + 1] = "exited"
          /\ mi' = mi + 1
          /\ UNCHANGED mpc
     ELSE /\ mpc' = "close"
          /\ UNCHANGED mi
  /\ UNCHANGED <<nonmaster, master_keep_running, wst, w_keep_running, sigpend,
                 global_stats_mapped, server_fd_open, exit_code>>

\* close(server_fd); cleanup_stats() (sem_destroy, munmap); return.
MasterCleanup ==
  \/ /\ mpc = "close"
     /\ server_fd_open' = FALSE
     /\ mpc' = "cleanup"
     /\ UNCHANGED <<nonmaster, mi, master_keep_running, wst, w_keep_running,
                    sigpend, global_stats_mapped, exit_code>>
  \/ /\ mpc = "cleanup"
     /\ global_stats_mapped' = FALSE
     /\ mpc' = "returned"
     /\ exit_code' = EXIT_SUCCESS
     /\ UNCHANGED <<nonmaster, mi, master_keep_running, wst, w_keep_running,
                    sigpend, server_fd_open>>

\* The SIGTERM sent by the master is delivered to worker w.  Before the
\* worker's own signal() calls the handler is the inherited signal_handler,
\* which clears the child's copy of main.c's keep_running, a variable the
\* worker never reads; afterwards it is worker_signal_handler.
WorkerSignal(w) ==
  /\ sigpend[w]
  /\ wst[w] \notin {"none", "exited"}
  /\ sigpend' = [sigpend EXCEPT ![w] = FALSE]
  /\ w_keep_running' = IF wst[w] = "forked" THEN w_keep_running
                       ELSE [w_keep_running EXCEPT ![w] = 0]
  /\ UNCHANGED <<nonmaster, mpc, mi, master_keep_running, wst,
                 global_stats_mapped, server_fd_open, exit_code>>

\* A connection arrives and accept() returns it.
WorkerAccept(w) ==
  /\ wst[w] = "accept"
  /\ wst' = [wst EXCEPT ![w] = "busy"]
  /\ UNCHANGED <<nonmaster, mpc, mi, master_keep_running, w_keep_running,
                 sigpend, global_stats_mapped, server_fd_open, exit_code>>

\* The steps worker w takes by itself: its signal() calls, the test of
\* while (keep_running), the handling of an accepted connection, and the
\* shutdown sequence up to exit().  accept() is restarted after a handler
\* (signal() installs it with SA_RESTART), so "accept" has no step here.
WorkerRun(w) ==
  /\ \/ /\ wst[w] = "forked"
        /\ wst' = [wst EXCEPT ![w] = "loop"]
     \/ /\ wst[w] = "loop"
        /\ wst' = [wst EXCEPT ![w] = IF w_keep_running[w] = 1 THEN "accept"
                                     ELSE "stopping"]
     \/ /\ wst[w] = "busy"
        /\ wst' = [wst EXCEPT ![w] = "loop"]
     \/ /\ wst[w] = "stopping"
        /\ wst' = [wst EXCEPT ![w] = "exited"]
  /\ UNCHANGED <<nonmaster, mpc, mi, master_keep_running, w_keep_running,
                 sigpend, global_stats_mapped, server_fd_open, exit_code>>

main ==
  \/ MasterFork
  \/ MasterWait
  \/ MasterKill
  \/ MasterReap
  \/ MasterCleanup

MasterNext ==
  \/ main
  \/ signal_handler
  \/ \E w \in Workers : WorkerSignal(w) \/ WorkerAccept(w) \/ WorkerRun(w)

MasterSpec == MasterInit /\ [][MasterNext]_vars

\* The master and every worker keep running and pending signals are
\* delivered; nothing is assumed about clients connecting.
FairMasterSpec ==
  /\ MasterSpec
  /\ WF_vars(main)
  /\ \A w \in Workers : WF_vars(WorkerSignal(w)) /\ WF_vars(WorkerRun(w))

\* ------------------------------------------------------------------------
\* handle_client_connection on one request (http.c): HttpSpec.  A target is
\* a string over a four-character alphabet; "/a" plays the part of the
\* monitoring paths /health, /metrics and /stats.
\* ------------------------------------------------------------------------
Alphabet == {"/", ".", "?", "a"}
Targets == UNION {[1..n -> Alphabet] : n \in 1..MaxTargetLen}
Methods == {"GET", "HEAD", "POST"}
MonitorPaths == {<<"/", "a">>}
IndexHtml == <<"/", "index.html">>

\* What send_file_response finds at the path: a regular file (cached or
\* not), nothing, a directory, or a file whose fstat fails.
FsKinds == {"file", "missing", "directory", "statfail"}

\* sscanf "%511s": req->path is the target's first PathFieldLen characters.
ParsedPath(target) ==
  IF Len(target) > PathFieldLen THEN SubSeq(target, 1, PathFieldLen) ELSE target

\* strstr(s, "..") != NULL
HasDotDot(str) == \E i \in 1..(Len(str) - 1) : str[i] = "." /\ str[i + 1] = "."

\* strchr(path, '?') and *query = '\0': the path up to its first '?'.
StripQuery(path) ==
  IF \E i \in 1..Len(path) : path[i] = "?"
  THEN SubSeq(path, 1, (CHOOSE i \in 1..Len(path) :
                          /\ path[i] = "?"
                          /\ \A j \in 1..(i - 1) : path[j] # "?") - 1)
  ELSE path

\* The path handed to send_file_response, for a request that gets that far.
RelPath(target) ==
  IF ParsedPath(target) = <<"/">> THEN IndexHtml ELSE StripQuery(ParsedPath(target))

\* The exit path handle_client_connection takes: one of AllRequests.
RequestKind(line, method, target, fs) ==
  IF line = "none" THEN "empty"
  ELSE IF line = "garbage" THEN "malformed"
  ELSE IF method \notin {"GET", "HEAD"} THEN "badmethod"
  ELSE IF ParsedPath(target) \in MonitorPaths THEN "monitor"
  ELSE IF ParsedPath(target) = <<"/">> THEN fs
  ELSE IF HasDotDot(StripQuery(ParsedPath(target))) THEN "dotdot"
  ELSE fs

\* Whether body bytes follow the headers: send_http_response always sends
\* its body; send_file_response skips the content for HEAD.
BodySent(kind, method) ==
  IF kind = "empty" THEN FALSE
  ELSE IF kind = "file" THEN method # "HEAD"
  ELSE TRUE

\* handle_client_connection from its parse to its return.
HttpHandle ==
  /\ http.stage = "received"
  /\ LET kind == RequestKind(http.line, http.method, http.target, http.fs)
     IN /\ http' = [http EXCEPT !.stage = "done", !.kind = kind,
                                !.rel_path = IF kind \in FsKinds
                                             THEN RelPath(http.target) ELSE <<>>,
                                !.body = BodySent(kind, http.method)]
        /\ IF kind = "empty"
           THEN UNCHANGED <<stats, wire>>
           ELSE /\ wire' = [status |-> StatusSent(kind), headers |-> HeadersSent(kind)]
                /\ stats' = update_stats_with_code(stats, 1, CodeRecorded(kind))
        /\ active_connections' =
             IF Decrements(kind)
             THEN decrement_active_connections(
                    increment_active_connections(active_connections))
             ELSE increment_active_connections(active_connections)
  /\ UNCHANGED <<qvars, pvars, keep_running, sock, accepted, gvars, cvars, reply,
                 stats_sem, completed, lvars, mvars, fvars, zvars>>

\* recv: nothing, a line that does not parse, or "METHOD target HTTP/1.1".
HttpRecv ==
  /\ http.stage = "idle"
  /\ \/ \E l \in {"none", "garbage"} :
          http' = [http EXCEPT !.stage = "received", !.line = l]
     \/ \E m \in Methods, t \in Targets, f \in FsKinds :
          http' = [http EXCEPT !.stage = "received", !.line = "request",
                               !.method = m, !.target = t, !.fs = f]
  /\ UNCHANGED <<qvars, pvars, wvars, accepted, gvars, cvars, svars, hvars,
                 lvars, mvars, fvars, zvars>>

HttpInit ==
  /\ QueueInit
  /\ IdleState
  /\ pc = [p \in Procs |-> "off"]
  /\ cache = file_cache_init(MaxCacheMb)
  /\ last = [put |-> NoPut, get |-> NoGet]

HttpNext == HttpRecv \/ HttpHandle

HttpSpec == HttpInit /\ [][HttpNext]_vars

\* ------------------------------------------------------------------------
\* Properties of the queue
\* ------------------------------------------------------------------------
Range(f) == {f[x] : x \in DOMAIN f}

\* Calls that took a release of empty_slots and have not yet posted
\* filled_slots (or given the release back).
EmptyHolders ==
  {p \in Procs : pc[p] \in {"enq_chk", "enq_lock", "enq_cs", "enq_post",
                             "try_chk", "try_lock", "try_cs", "try_post"}}

\* Calls that took a release of filled_slots and have not yet posted
\* empty_slots (or given the release back).
FilledHolders ==
  {p \in Procs : pc[p] \in {"deq_chk", "deq_lock", "deq_cs", "deq_post"}}

\* Releases connection_queue_shutdown has posted on filled_slots so far.
ShutdownPosted == idx[Main] + idx[Closer]

\* C3 as stated: at all times filled_slots + empty_slots = QUEUE_SIZE and
\* 0 <= filled_slots <= QUEUE_SIZE.
C3_SemaphoreSum ==
  /\ filled_slots + empty_slots = QUEUE_SIZE
  /\ 0 <= filled_slots
  /\ filled_slots <= QUEUE_SIZE

\* C3 amended: the two counters, the releases held by calls in progress and
\* the releases posted by shutdown balance: filled_slots + empty_slots +
\* (calls between their sem_wait and their sem_post) = QUEUE_SIZE + (releases
\* posted by shutdown), with 0 <= filled_slots <= QUEUE_SIZE + (releases
\* posted by shutdown) and 0 <= empty_slots <= QUEUE_SIZE.
C3_SemaphoreBalance ==
  /\ filled_slots + empty_slots + Cardinality(EmptyHolders)
       + Cardinality(FilledHolders) = QUEUE_SIZE + ShutdownPosted
  /\ 0 <= filled_slots
  /\ filled_slots <= QUEUE_SIZE + ShutdownPosted
  /\ 0 <= empty_slots
  /\ empty_slots <= QUEUE_SIZE

\* C3 witness: shutdown has posted all its releases while a descriptor is
\* queued and a call is in progress; filled_slots exceeds QUEUE_SIZE.
C3_Witness ==
  /\ pc[Closer] = "exited"
  /\ filled_slots > QUEUE_SIZE
  /\ pending # <<>>
  /\ EmptyHolders # {}

\* C5: an enqueue writes only into a slot that holds the sentinel, and the
\* critical section of a dequeue reads a descriptor (never the sentinel)
\* that an enqueue wrote and no dequeue has returned yet.
C5_NoOverflowNoUnderflow ==
  [][/\ \A s \in Slots :
          (connections'[s] # connections[s] /\ connections'[s] # NoFd)
            => connections[s] = NoFd
      /\ \A p \in Procs :
          (pc[p] = "deq_cs" /\ pc'[p] = "deq_post")
            => (client_fd'[p] \in Conns /\ client_fd'[p] \in Range(pending))]_vars

\* C5 witness: a consumer has taken the descriptor written after the tail
\* wrapped around, with shutdown already signalled.
C5_Witness ==
  /\ \E c \in Consumers : pc[c] = "deq_post" /\ client_fd[c] = QUEUE_SIZE + 1
  /\ shutdown = 1

\* C7: once the shutdown flag is set, every consumer eventually returns -1
\* from connection_queue_dequeue.
C7_ConsumersWake == (shutdown = 1) ~> (\A c \in Consumers : pc[c] = "exited")

\* C7 witness: more consumers than releases posted, all of them returned -1.
C7_Witness ==
  /\ Cardinality(Consumers) > ShutdownPosts
  /\ pc[Closer] = "exited"
  /\ \A c \in Consumers : pc[c] = "exited" /\ client_fd[c] = NoFd

\* C8 as stated: once the shutdown flag is set, every waiter on the queue
\* eventually returns: no producer stays in sem_wait(&empty_slots) and no
\* consumer in sem_wait(&filled_slots).
C8_WaitersTerminate ==
  (shutdown = 1) ~> (\A p \in Procs : pc[p] \notin {"enq_wait", "deq_wait"})

\* ------------------------------------------------------------------------
\* Properties of the worker
\* ------------------------------------------------------------------------

\* The worker's main thread is never inside connection_queue_try_enqueue
\* with the shutdown flag set.
WorkerEnqueuesBeforeShutdown ==
  pc[Main] \in {"try_wait", "try_chk", "try_lock", "try_cs", "try_post"}
    => shutdown = 0

\* C1: no accepted connection is closed twice, and when the worker has
\* returned every accepted connection has been closed.
C1_ClosedExactlyOnce ==
  /\ \A c \in Conns : sock[c] # "twice"
  /\ \A c \in Conns : c > accepted => sock[c] = "new"
  /\ pc[Main] = "exited" =>
       \A c \in 1..accepted :
         sock[c] \in {"closed_prio", "closed_503", "closed_thread", "closed_destroy"}

\* C1 witness: the worker has returned after closing one connection in a
\* pool thread, one with a 503 and one in connection_queue_destroy.
C1_Witness ==
  /\ pc[Main] = "exited"
  /\ \E c \in Conns : sock[c] = "closed_thread"
  /\ \E c \in Conns : sock[c] = "closed_503"
  /\ \E c \in Conns : sock[c] = "closed_destroy"

\* Pool threads inside handle_client_connection after its increment.
InHandler == {t \in Threads : pc[t] \in {"h_recv", "h_dec"}}

\* C2: every handle_client_connection decrements the gauge it incremented:
\* active_connections counts exactly the handlers in progress, so it is zero
\* once all of them have returned.
C2_GaugeMatched == active_connections = Cardinality(InHandler)

\* C4: in the worker (one producer) the critical section of each dequeue
\* removes the oldest descriptor still queued, and that descriptor's enqueue
\* has completed.
C4_Fifo ==
  [][\A t \in Threads :
       (pc[t] = "deq_cs" /\ pc'[t] = "deq_post")
         => /\ pending # <<>>
            /\ client_fd'[t] = Head(pending)
            /\ ~(pc[Main] \in {"try_cs", "try_post"} /\ client_fd[Main] = Head(pending))]_vars

\* C4 witness: a pool thread holds the descriptor that was written after
\* the tail wrapped around to slot 0.
C4_Witness ==
  /\ \E t \in Threads : pc[t] = "deq_post" /\ client_fd[t] = QUEUE_SIZE + 1
  /\ head = 1

\* Slots holding a descriptor.
Occupied == Cardinality({s \in Slots : connections[s] # NoFd})

\* No dequeue has removed anything yet.
NoDequeue ==
  /\ \A t \in Threads : pc[t] \in {"deq_wait", "deq_chk", "deq_lock", "deq_cs"}
  /\ \A c \in Conns : sock[c] # "closed_thread"

\* C6: with QUEUE_SIZE descriptors queued connection_queue_try_enqueue fails
\* at once and changes nothing in the queue; with no dequeues, a call
\* succeeds exactly while fewer than QUEUE_SIZE calls have succeeded.
C6_TryEnqueueFull ==
  /\ [](pc[Main] = "try_wait" /\ Occupied = QUEUE_SIZE => empty_slots = 0)
  /\ [](pc[Main] = "try_wait" /\ NoDequeue =>
          /\ Len(pending) <= QUEUE_SIZE
          /\ (empty_slots > 0 <=> Len(pending) < QUEUE_SIZE)
          /\ (Len(pending) < QUEUE_SIZE => \A c \in Conns : sock[c] # "closed_503"))
  /\ [][(pc[Main] = "try_wait" /\ pc'[Main] # "try_wait" /\ empty_slots = 0)
          => (pc'[Main] = "reject" /\ UNCHANGED qvars)]_vars
  /\ [][(pc[Main] = "try_wait" /\ pc'[Main] # "try_wait" /\ empty_slots > 0)
          => pc'[Main] = "try_chk"]_vars

\* C6 witness: with no dequeue at all, QUEUE_SIZE calls succeeded and the
\* next one has just failed.
C6_Witness ==
  /\ pc[Main] = "reject"
  /\ NoDequeue
  /\ Len(pending) = QUEUE_SIZE
  /\ client_fd[Main] = QUEUE_SIZE + 1

\* ------------------------------------------------------------------------
\* Properties of the cache
\* ------------------------------------------------------------------------

\* The cells linked from the head.
RECURSIVE ListFrom(_, _, _)
ListFrom(c, cur, left) ==
  IF cur = NULL \/ left = 0 THEN <<>>
  ELSE <<cur>> \o ListFrom(c, c.ent[cur].next, left - 1)

Entries(c) == ListFrom(c, c.head, Cardinality(NodeIds))

\* C9: total_size <= max_size, and no entry is larger than 1 MiB.
C9_CacheBounded ==
  /\ cache.total_size <= cache.max_size
  /\ \A i \in 1..Len(Entries(cache)) :
       cache.ent[Entries(cache)[i]].content_size <= MAX_FILE_SIZE

\* C10: the next get of a path after a successful put of that path returns
\* 0 with the bytes and the size that were put.
C10_RoundTrip ==
  (last.put.ok /\ last.get.called /\ last.get.path = last.put.path)
    => /\ last.get.ret = 0
       /\ last.get.content = last.put.content
       /\ last.get.size = last.put.size

\* C11: a second successful file_cache_put of the same key, on a cache that
\* holds nothing but the entry of the first, leaves total_size equal to the
\* second size and entry_count equal to 1; and a successful put of a key
\* that find_entry finds changes total_size by (new size - old size) and
\* leaves entry_count unchanged.
C11_SameKeyPut ==
  /\ [][(/\ last.put.ok /\ ~last.get.called
          /\ cache.entry_count = 1 /\ cache.total_size = last.put.size
          /\ last'.put.ok /\ ~last'.get.called
          /\ last'.put.path = last.put.path)
         => (cache'.total_size = last'.put.size /\ cache'.entry_count = 1)]_vars
  /\ [][(/\ last'.put.ok /\ ~last'.get.called
          /\ find_entry(cache, last'.put.path) # NULL)
         => /\ cache'.total_size =
                 cache.total_size
                   - cache.ent[find_entry(cache, last'.put.path)].content_size
                   + last'.put.size
            /\ cache'.entry_count = cache.entry_count]_vars

\* C12: the health probe is never placed in the queue and, while the worker
\* is not told to stop, it is eventually answered by handle_priority_endpoint,
\* whatever the other clients send or do not send.
C12_PriorityServed ==
  /\ [](\A s \in Slots : connections[s] # Probe)
  /\ <>(keep_running = 0 \/ sock[Probe] = "closed_prio")

\* The descriptor fd is in the ring, or with a pool thread.
QueuedOrHandled(fd) ==
  \/ \E s \in Slots : connections[s] = fd
  \/ \E t \in Threads : client_fd[t] = fd

\* C13: when connection_queue_try_enqueue fails for an accepted connection,
\* the main thread writes a 503 with Retry-After: 1 and Connection: close,
\* total_requests and http_500_count each grow by one, the socket is closed
\* there and then, and the descriptor is never in the queue nor with a pool
\* thread, before or after.
C13_Rejected503 ==
  /\ [][(pc[Main] = "try_wait" /\ pc'[Main] = "reject")
         => (UNCHANGED <<qvars, sock, svars>> /\ sock[client_fd[Main]] = "open")]_vars
  /\ [](pc[Main] = "reject" => ~QueuedOrHandled(client_fd[Main]))
  /\ [][(pc[Main] = "reject" /\ pc'[Main] # "reject")
         => /\ wire'.status = 503
            /\ {"Retry-After: 1", "Connection: close"} \subseteq wire'.headers
            /\ stats'.total_requests = stats.total_requests + 1
            /\ stats'.http_500_count = stats.http_500_count + 1
            /\ sock'[client_fd[Main]] = "closed_503"
            /\ UNCHANGED qvars]_vars
  /\ [](\A fd \in Conns : sock[fd] = "closed_503" => ~QueuedOrHandled(fd))
  /\ [][\A fd \in Conns : sock[fd] = "closed_503" => sock'[fd] = "closed_503"]_vars

\* C13 witness: the third connection found the queue full while both pool
\* threads were handling the first two, and its 503 is on the wire.
C13_Witness ==
  /\ \E fd \in Conns : sock[fd] = "closed_503"
  /\ wire = [status |-> 503, headers |-> Headers503]
  /\ stats.http_500_count >= 1
  /\ pc[Main] = "loop"

C15_NoLostUpdate ==
  \A p \in Callers :
    pc[p] \in {"rd_log_wait", "rd_log_cs", "rd_log_post", "rd_post"}
      => /\ reg[p].st.total_requests >= completed.calls
         /\ reg[p].st.http_200_count >= completed.calls
         /\ reg[p].st.bytes_sent >= completed.bytes

\* Workers that were forked and have not exited.
LiveWorkers == {w \in Workers : wst[w] \notin {"none", "exited"}}

\* C16: once the master has forked its workers and received SIGINT or
\* SIGTERM, eventually every worker has exited and main has returned
\* EXIT_SUCCESS.
C16_ShutdownTerminates ==
  (master_keep_running = 0 /\ mpc \notin {"fork", "failed"})
    ~> (mpc = "returned" /\ exit_code = EXIT_SUCCESS /\ LiveWorkers = {})

\* C17: while a forked worker has not exited, the master has neither run
\* cleanup_stats nor closed the listening socket; each of the two steps
\* is taken with every worker exited.
C17_CleanupAfterWorkers ==
  /\ [](LiveWorkers # {} => (global_stats_mapped /\ server_fd_open))
  /\ [][(global_stats_mapped' # global_stats_mapped
           \/ server_fd_open' # server_fd_open) => LiveWorkers = {}]_vars

\* C17 witness: main has returned after cleanup_stats with the socket
\* closed, and every worker was forked and has exited.
C17_Witness ==
  /\ mpc = "returned"
  /\ ~global_stats_mapped
  /\ ~server_fd_open
  /\ \A w \in Workers : wst[w] = "exited"

\* C18: once worker_signal_handler has run, the worker leaves its accept
\* loop, shuts the queue down, joins its threads and exits, with no
\* further connection needed.
C18_WorkerExits ==
  (keep_running = 0)
    ~> (pc[Main] = "exited" /\ shutdown = 1 /\ \A t \in Threads : pc[t] = "exited")

\* Callers between sem_wait and sem_post of the statistics semaphore, and
\* of the logger's semaphore.
HoldsStatsSem(p) ==
  pc[p] \in {"inc_load", "inc_store", "inc_post",
             "dec_load", "dec_store", "dec_post",
             "upd_load", "upd_store", "upd_log_wait", "upd_log_cs",
             "upd_log_post", "upd_post",
             "rd_load", "rd_log_wait", "rd_log_cs", "rd_log_post", "rd_post"}
HoldsLogSem(p) ==
  pc[p] \in {"upd_log_cs", "upd_log_post", "rd_log_cs", "rd_log_post"}

\* C19: no caller holds the statistics semaphore and the logger's semaphore
\* at once, and none waits for the logger's semaphore while it holds the
\* statistics semaphore.
C19_NoCrossNesting ==
  \A p \in Callers :
    HoldsStatsSem(p) =>
      ~HoldsLogSem(p) /\ pc[p] \notin {"upd_log_wait", "rd_log_wait"}

\* A file is opened (fopen succeeds) only inside send_file_response.
FileOpened == http.kind \in {"file", "directory", "statfail"}

\* C20: a GET or HEAD request whose target contains ".." anywhere, before
\* or after a '?', is answered 403 and no file is opened for it.
C20_DotDotForbidden ==
  (/\ http.stage = "done"
   /\ http.line = "request"
   /\ http.method \in {"GET", "HEAD"}
   /\ HasDotDot(http.target))
    => (wire.status = 403 /\ ~FileOpened)

\* strchr(target, '?') != NULL
HasQuery(target) == \E i \in 1..Len(target) : target[i] = "?"

\* C21: a GET for "t?q" takes the same exit path (so yields the same
\* status) and resolves to the same file path as a GET for "t".
C21_QueryIgnored ==
  (/\ http.stage = "done"
   /\ http.line = "request"
   /\ http.method = "GET"
   /\ HasQuery(http.target)
   /\ StripQuery(http.target) # <<>>)
    => /\ http.kind = RequestKind("request", "GET", StripQuery(http.target), http.fs)
       /\ http.kind \in FsKinds => http.rel_path = RelPath(StripQuery(http.target))

\* C22: the response to a HEAD has the status and headers of the response
\* to a GET for the same target in the same state, and no body bytes.
C22_HeadLikeGet ==
  (/\ http.stage = "done"
   /\ http.line = "request"
   /\ http.method = "HEAD")
    => /\ wire.status = StatusSent(RequestKind("request", "GET", http.target, http.fs))
       /\ wire.headers = HeadersSent(RequestKind("request", "GET", http.target, http.fs))
       /\ ~http.body

\* The requests worker w answered with every malloc() granted.
ServedOkBy(w) ==
  {i \in 1..Len(served) : served[i].worker = w /\ served[i].mem = "ok"}

\* The document has an entry in worker w's cache.
DocCached(w) ==
  \E n \in NodeIds : /\ wcache[w].ent[n].used
                     /\ wcache[w].ent[n].path = StoredPath(doc.path)

\* C23: with caching enabled, a file of exactly MAX_FILE_SIZE bytes is in
\* the worker's cache once that worker has served it, and a file of
\* MAX_FILE_SIZE + 1 bytes is never in any cache.
C23_OneMiBCached ==
  cache_size_mb > 0 =>
    /\ doc.size = MAX_FILE_SIZE =>
         \A w \in Workers : ServedOkBy(w) # {} => DocCached(w)
    /\ doc.size = MAX_FILE_SIZE + 1 =>
         \A w \in Workers : wcache[w].entry_count = 0

\* A file one byte under the limit is cached by the worker that served it,
\* and a larger one never: the part of C23 the code keeps.
C23_UnderLimitCached ==
  cache_size_mb > 0 =>
    /\ doc.size = MAX_FILE_SIZE - 1 =>
         \A w \in Workers : ServedOkBy(w) # {} => DocCached(w)
    /\ doc.size >= MAX_FILE_SIZE =>
         \A w \in Workers : wcache[w].entry_count = 0

\* C24: with a cache size of 0 every worker serves the document, each
\* answer is a 200 with X-Cache: MISS, and no cache holds an entry.
C24_DisabledAlwaysMiss ==
  cache_size_mb = 0 =>
    /\ \A i \in 1..Len(served) :
         served[i].status = 200 /\ served[i].xcache = "X-Cache: MISS"
    /\ \A w \in Workers : ~cache_ptr[w] /\ wcache[w].entry_count = 0

\* With the cache off, one worker has answered two GETs for a document of
\* cacheable size.
C24_Witness ==
  /\ cache_size_mb = 0
  /\ doc.size = 1
  /\ \E i, j \in 1..Len(served) :
       /\ i < j
       /\ served[i].worker = served[j].worker
       /\ served[i].method = "GET" /\ served[j].method = "GET"
       /\ served[i].mem = "ok"
       /\ served[j].xcache = "X-Cache: MISS"

\* C25: with caching enabled and a cacheable document, when the first two
\* requests are GETs and the first was answered 200, the second is
\* answered 200 from the cache with the same body.
C25_SecondGetHits ==
  (/\ cache_size_mb > 0
   /\ doc.size > 0 /\ doc.size < MAX_FILE_SIZE
   /\ Len(served) >= 2
   /\ served[1].method = "GET" /\ served[2].method = "GET"
   /\ served[1].status = 200 /\ served[1].mem = "ok")
    => /\ served[2].status = 200
       /\ served[2].xcache = "X-Cache: HIT"
       /\ served[2].body /\ served[2].content = served[1].content

\* The same for two GETs answered by one worker for a document whose path
\* fits the entry's path field.
C25_SameWorkerShortPath ==
  (/\ cache_size_mb > 0
   /\ doc.size > 0 /\ doc.size < MAX_FILE_SIZE
   /\ Len(doc.path) < MAX_PATH_LEN
   /\ Len(served) >= 2
   /\ served[1].worker = served[2].worker
   /\ served[1].method = "GET" /\ served[2].method = "GET"
   /\ served[1].status = 200 /\ served[1].mem = "ok")
    => /\ served[2].status = 200
       /\ served[2].xcache = "X-Cache: HIT"
       /\ served[2].body /\ served[2].content = served[1].content

\* The same for one worker and the long path.
C25_SameWorkerLongPath ==
  (/\ cache_size_mb > 0
   /\ doc.size > 0 /\ doc.size < MAX_FILE_SIZE
   /\ doc.path = LongPath
   /\ Len(served) >= 2
   /\ served[1].worker = served[2].worker
   /\ served[1].method = "GET" /\ served[2].method = "GET"
   /\ served[1].status = 200 /\ served[1].mem = "ok")
    => served[2].xcache = "X-Cache: HIT"

\* No call of enqueue, try_enqueue or dequeue is in progress.
Quiescent ==
  /\ pc[Producer] = "idle"
  /\ \A c \in Takers : pc[c] \in {"got", "exited"}

\* The number of connections the ring holds.
Held == Cardinality({s \in Slots : connections[s] # NoFd})

\* C26: a connection_queue_size that computes its result in a quiescent
\* state returns the number of connections held in the queue.
C26_SizeIsOccupancy ==
  [][(pc[Monitor] = "sz_cs" /\ pc'[Monitor] = "idle" /\ Quiescent)
       => size' = Held]_vars

\* The same for a queue that is not full.
C26_SizeBelowFull ==
  [][(pc[Monitor] = "sz_cs" /\ pc'[Monitor] = "idle" /\ Quiescent
      /\ Held < QUEUE_SIZE)
       => size' = Held]_vars

\* Thread t takes the shutdown branch of connection_queue_dequeue's check.
ChecksAfterShutdown(t) == pc[t] = "deq_chk" /\ shutdown = 1 /\ pc'[t] # "deq_chk"

\* C27: a dequeue that checks the flag after it was set returns -1, posts
\* filled_slots back and leaves head and the ring alone, whatever is still
\* queued; and when the worker goes on to destroy the queue every pool
\* thread has returned, holds no descriptor, and every connection still
\* open is one that was never dequeued.
C27_ShutdownStopsDispatch ==
  [][/\ \A t \in Threads :
          ChecksAfterShutdown(t)
            => /\ pc'[t] = "exited"
               /\ client_fd'[t] = NoFd
               /\ filled_slots' = filled_slots + 1
               /\ head' = head
               /\ connections' = connections
     /\ pc'[Main] = "destroy"
          => /\ \A t \in Threads : pc'[t] = "exited" /\ client_fd'[t] = NoFd
             /\ \A c \in Conns :
                  sock'[c] = "open" => \E s \in Slots : connections'[s] = c]_vars

\* The worker is about to destroy the queue; a thread handled one
\* connection that it dequeued before the flag was set, and another
\* connection is still in the ring after every thread returned.
C27_Witness ==
  /\ pc[Main] = "destroy"
  /\ shutdown = 1
  /\ \A t \in Threads : pc[t] = "exited"
  /\ \E c \in Conns : sock[c] = "closed_thread"
  /\ \E c \in Conns : sock[c] = "open" /\ SlotsOf(c) # {}

\* C28: with the flag set, connection_queue_enqueue and
\* connection_queue_try_enqueue take at most one empty slot at their
\* wait, and return from their check (the -1 return, never the mutex
\* section) giving that slot back; neither step touches the ring or tail.
C28_EnqueueAfterShutdown ==
  [][shutdown = 1 =>
       /\ (pc[Producer] \in {"enq_wait", "try_wait"} /\ pc'[Producer] # pc[Producer])
            => /\ \/ pc'[Producer] = "idle" /\ empty_slots' = empty_slots
                  \/ /\ pc'[Producer] \in {"enq_chk", "try_chk"}
                     /\ empty_slots' = empty_slots - 1
               /\ connections' = connections /\ tail' = tail
       /\ (pc[Producer] \in {"enq_chk", "try_chk"} /\ pc'[Producer] # pc[Producer])
            => /\ pc'[Producer] = "idle"
               /\ empty_slots' = empty_slots + 1
               /\ connections' = connections /\ tail' = tail
       /\ (pc[Producer] = "idle" /\ pc'[Producer] # "idle")
            => pc'[Producer] \in {"enq_wait", "try_wait"}]_vars

\* The one call the producer made has returned with the flag set, nothing
\* was ever written to the ring, and every empty slot is back.
C28_Witness ==
  /\ shutdown = 1
  /\ accepted = 1
  /\ pc[Producer] = "idle"
  /\ client_fd[Producer] = 1
  /\ tail = 0
  /\ \A s \in Slots : connections[s] = NoFd
  /\ \A c \in Consumers : client_fd[c] = NoFd
  /\ empty_slots = QUEUE_SIZE

\* The callers between a sem_wait(&mutex) and its sem_post(&mutex): slot
\* write and tail advance, slot read and head advance, size computation,
\* flag set, destroy scan.
InMutexSection ==
  {p \in Procs : pc[p] \in {"enq_cs", "try_cs", "deq_cs", "sz_cs", "sd_set", "dst_scan"}}

\* C29: at most one caller is inside a section guarded by the queue's
\* mutex, and the semaphore's value is 0 while one is inside and 1 otherwise.
C29_MutexExclusive ==
  /\ Cardinality(InMutexSection) <= 1
  /\ mutex \in {0, 1}
  /\ mutex = 1 - Cardinality(InMutexSection)

\* The size is being computed while the producer, a consumer and the
\* caller of shutdown wait for the mutex.
C29_Witness ==
  /\ pc[Monitor] = "sz_cs"
  /\ pc[Producer] \in {"enq_lock", "try_lock"}
  /\ \E c \in Takers : pc[c] = "deq_lock"
  /\ pc[Closer] = "sd_lock"
  /\ mutex = 0

\* The destroy scan runs under the mutex.
C29_DestroyScanReached == pc[Closer] = "dst_scan" /\ mutex = 0

\* C30: from the moment the worker starts to destroy the thread pool and
\* the queue, and on through the destroy of the cache, every pool thread
\* has returned from thread_worker (so none is in connection_queue_dequeue
\* or in a handler that calls file_cache_get or file_cache_put), and the
\* cache stays as file_cache_destroy left it.
C30_DestroyAfterJoin ==
  /\ pc[Main] \in {"destroy", "fc_destroy", "exited"}
       => \A t \in Threads : pc[t] = "exited" /\ client_fd[t] = NoFd
  /\ pc[Main] = "exited" => cache = file_cache_destroy(cache)

\* The queue is destroyed and the cache is about to be: it holds the
\* document a pool thread put there, and every thread has been joined.
C30_Witness ==
  /\ pc[Main] = "fc_destroy"
  /\ cache.entry_count > 0
  /\ \A t \in Threads : pc[t] = "exited"
  /\ \E c \in Conns : sock[c] = "closed_thread"

\* file_cache_put's tests before it takes the lock: size 0, size over
\* MAX_FILE_SIZE, size over max_size.
Rejected(c, content_size) ==
  content_size = 0 \/ content_size > MAX_FILE_SIZE \/ content_size > c.max_size

\* The step is a call of file_cache_put / of file_cache_get.
IsPut == ~last'.get.called
IsGet == last'.get.called

\* C32: a file_cache_put with a rejected size returns -1 and leaves the
\* cache as it was, and a file_cache_get that misses returns -1 and leaves
\* the cache as it was.
C32_RejectedUnchanged ==
  [][/\ (IsPut /\ Rejected(cache, last'.put.size))
          => (~last'.put.ok /\ cache' = cache)
     /\ (IsGet /\ find_entry(cache, last'.get.path) = NULL)
          => (last'.get.ret = NoFd /\ cache' = cache)]_vars

\* A put was rejected on a cache that holds two entries.
C32_Witness ==
  /\ ~last.get.called
  /\ ~last.put.ok /\ last.put.path # <<>>
  /\ Rejected(cache, last.put.size)
  /\ cache.entry_count = 2

\* A get missed on a cache that holds two entries.
C32_WitnessMiss ==
  /\ last.get.called /\ last.get.ret = NoFd
  /\ cache.entry_count = 2

\* The sum of the content_size of the cells in the sequence es.
RECURSIVE SumSizes(_, _)
SumSizes(c, es) ==
  IF es = <<>> THEN 0 ELSE c.ent[Head(es)].content_size + SumSizes(c, Tail(es))

C35_UniqueKeys ==
  LET es == Entries(cache)
  IN /\ \A i, j \in 1..Len(es) :
          i # j => cache.ent[es[i]].path # cache.ent[es[j]].path
     /\ \A i \in 1..Len(es), path \in Paths :
          cache.ent[es[i]].path = StoredPath(path)
            => find_entry(cache, path) = es[i]

\* The same for the entries whose path fits the path field.
C35_UniqueShortKeys ==
  LET es == Entries(cache)
  IN /\ \A i, j \in 1..Len(es) :
          (i # j /\ cache.ent[es[i]].path # StoredPath(LongPath))
            => cache.ent[es[i]].path # cache.ent[es[j]].path
     /\ \A i \in 1..Len(es), path \in Paths \ {LongPath} :
          cache.ent[es[i]].path = StoredPath(path)
            => find_entry(cache, path) = es[i]

\* Two entries carry the same path.
C35_Duplicate ==
  \E i, j \in 1..Len(Entries(cache)) :
    i # j /\ cache.ent[Entries(cache)[i]].path = cache.ent[Entries(cache)[j]].path

\* The sequence es without the cell e.
Without(es, e) == SelectSeq(es, LAMBDA x : x # e)

\* The last j cells of the sequence es.
LastOf(es, j) == SubSeq(es, Len(es) - j + 1, Len(es))

\* With the j entries nearest the tail gone, content_size more bytes fit.
FitsWithout(c, j, content_size) ==
  c.total_size - SumSizes(c, LastOf(Entries(c), j)) + content_size <= c.max_size

\* The least number of entries to take from the tail for content_size more
\* bytes to fit, the whole list if no fewer will do.
EvictCount(c, content_size) ==
  CHOOSE j \in 0..Len(Entries(c)) :
    /\ FitsWithout(c, j, content_size) \/ j = Len(Entries(c))
    /\ \A k \in 0..(j - 1) : ~FitsWithout(c, k, content_size)

C33_CounterMatchesWire ==
  (http.stage = "done" /\ wire.status # 0)
    => /\ stats.total_requests = 1
       /\ stats.http_200_count = (IF wire.status = 200 THEN 1 ELSE 0)
       /\ stats.http_404_count = (IF wire.status = 404 THEN 1 ELSE 0)
       /\ stats.http_500_count = (IF wire.status >= 500 THEN 1 ELSE 0)

\* The same for the responses other than 400 and 403.
C33_CounterMatchesWireBut4xx ==
  (http.stage = "done" /\ wire.status \notin {0, 400, 403})
    => /\ stats.total_requests = 1
       /\ stats.http_200_count = (IF wire.status = 200 THEN 1 ELSE 0)
       /\ stats.http_404_count = (IF wire.status = 404 THEN 1 ELSE 0)
       /\ stats.http_500_count = (IF wire.status >= 500 THEN 1 ELSE 0)

\* A 400 or a 403 is on the wire and the 5xx counter was incremented.
C33_FourXxCountedAs5xx ==
  /\ http.stage = "done"
  /\ wire.status \in {400, 403}
  /\ stats.http_500_count = 1

\* The connections closed on one of the three routes of the accept loop.
ClosedOnRoute(c) == sock[c] \in {"closed_prio", "closed_503", "closed_thread"}

\* C38: a connection that was closed by handle_priority_endpoint, by
\* send_503_response or by a pool thread, and from which a request was read
\* (or that was rejected with 503), had exactly one response written to it.
C38_AnsweredOnce ==
  \A c \in Conns :
    (ClosedOnRoute(c) /\ (reply[c].got \/ sock[c] = "closed_503"))
      => reply[c].sent = 1

\* The same for the 503 route and the pool threads alone.
C38_AnsweredOnceOffPriority ==
  \A c \in Conns :
    (/\ sock[c] \in {"closed_503", "closed_thread"}
     /\ (reply[c].got \/ sock[c] = "closed_503"))
      => reply[c].sent = 1

\* handle_priority_endpoint read a request from a connection and closed it
\* with nothing written.
C38_PrioritySilent ==
  \E c \in Conns : sock[c] = "closed_prio" /\ reply[c].got /\ reply[c].sent = 0

\* C39: when main has terminated, by its return after a clean shutdown or
\* by exit(EXIT_FAILURE) after a failed fork, no forked worker is running.
C39_NoExitBeforeWorkers ==
  mpc \in {"returned", "failed"} => LiveWorkers = {}

\* The same for the return after a clean shutdown alone.
C39_NoReturnBeforeWorkers ==
  mpc = "returned" => LiveWorkers = {}

\* The master has exited on a failed fork and a worker forked before it is
\* in its accept loop, never signalled.
C39_FailedWithLiveWorker ==
  /\ mpc = "failed"
  /\ exit_code = EXIT_FAILURE
  /\ \E w \in Workers : wst[w] = "accept" /\ w_keep_running[w] = 1 /\ ~sigpend[w]

\* C34: a thread that was handed a buffer by file_cache_get and has not
\* finished sending it holds a buffer that was not freed.
C34_NoFreeWhileSending ==
  \A t \in Threads : pc[t] = "b_send" => ~borrow[t].freed

\* The buffer of a sending thread was freed by another thread's put of the
\* same path.
C34_FreedByReplace ==
  \E t \in Threads :
    /\ pc[t] = "b_send" /\ borrow[t].freed
    /\ cache.ent[borrow[t].cached_content].used
    /\ cache.ent[borrow[t].cached_content].path = StoredPath(borrow[t].full_path)
    /\ cache.entry_count = 1

\* The buffer of a sending thread was freed by an eviction: its path is in
\* no entry of the list any more.
C34_FreedByEvict ==
  \E t \in Threads :
    /\ pc[t] = "b_send" /\ borrow[t].freed
    /\ \A i \in 1..Len(Entries(cache)) :
         cache.ent[Entries(cache)[i]].path # StoredPath(borrow[t].full_path)

\* The threads of the worker.
WorkerThreads == Threads \cup {Main}

\* Where a thread waits for each lock, and where it holds it.
MutexWaits == {"deq_lock", "try_lock", "sd_lock", "destroy"}
MutexHeld == {"deq_cs", "try_cs", "sd_set"}
StatsWaits == {"k_inc", "k_upd", "k_art", "k_dec"}
StatsHeld ==
  {"k_inc_cs", "k_upd_cs", "k_ul_wait", "k_ul_cs", "k_ul_post", "k_upd_end",
   "k_art_cs", "k_dec_cs"}
LogWaits ==
  {"k_rq_wait", "k_hit_wait", "k_ev_wait", "k_pl_wait", "k_ul_wait", "k_rl_wait",
   "k_sl_wait", "k_xl_wait"}
LogHeld ==
  {"k_rq_cs", "k_rq_post", "k_hit_cs", "k_hit_post", "k_ev_cs", "k_ev_post",
   "k_pl_cs", "k_pl_post", "k_ul_cs", "k_ul_post", "k_rl_cs", "k_rl_post",
   "k_sl_cs", "k_sl_post", "k_xl_cs", "k_xl_post"}
CacheWaits == {"k_get", "k_put"}
CacheHeld == {"k_get_cs", "k_put_cs", "k_ev_wait", "k_ev_cs", "k_ev_post", "k_put_end"}

\* The main thread has posted the last release of connection_queue_shutdown.
AllPosted ==
  pc[Main] \in {"k_sl_wait", "k_sl_cs", "k_sl_post", "join", "destroy",
                "fc_destroy", "exited"}

\* Thread p cannot go on until another thread acts.
Waits(p) ==
  \/ pc[p] \in MutexWaits /\ mutex = 0
  \/ pc[p] \in StatsWaits /\ stats_sem = 0
  \/ pc[p] \in LogWaits /\ log_sem = 0
  \/ pc[p] \in CacheWaits /\ rwlock = 1
  \/ pc[p] = "deq_wait" /\ filled_slots = 0
  \/ pc[p] = "join" /\ \E t \in Threads : pc[t] # "exited"

\* The threads that hold or owe what p waits for: the holder of a lock; for
\* filled_slots the main thread until its shutdown has posted, and a thread
\* that took a release and finds the flag set; for a join the threads that
\* have not exited.
Releasers(p) ==
  {q \in WorkerThreads \ {p} :
     \/ pc[p] \in MutexWaits /\ pc[q] \in MutexHeld
     \/ pc[p] \in StatsWaits /\ pc[q] \in StatsHeld
     \/ pc[p] \in LogWaits /\ pc[q] \in LogHeld
     \/ pc[p] \in CacheWaits /\ pc[q] \in CacheHeld
     \/ pc[p] = "deq_wait" /\ \/ q = Main /\ ~AllPosted
                              \/ pc[q] = "deq_chk" /\ shutdown = 1
     \/ pc[p] = "join" /\ q \in Threads /\ pc[q] # "exited"}

\* Every thread of S waits, and only for threads of S.
Deadlocked(S) ==
  S # {} /\ \A p \in S : Waits(p) /\ Releasers(p) \subseteq S

\* C36: no set of threads of the worker is deadlocked, before, during or
\* after shutdown; and unless the main thread is blocked in accept() or has
\* returned, some thread of the worker can take a step.
C36_DeadlockFree ==
  /\ \A S \in SUBSET WorkerThreads : ~Deadlocked(S)
  /\ pc[Main] \in {"k_accept", "exited"} \/ ENABLED LockSteps

\* During shutdown one pool thread waits for the logger's semaphore inside
\* evict_lru, holding the cache's lock, the other waits for the cache's
\* lock, and the main thread holds the logger's semaphore.
C36_Witness ==
  /\ shutdown = 1
  /\ pc[Main] = "k_sl_cs"
  /\ \E t \in Threads, u \in Threads :
       /\ pc[t] = "k_ev_wait" /\ Waits(t)
       /\ pc[u] = "k_get" /\ Waits(u)

\* The worker has returned with every thread joined and every lock free.
C36_WitnessDone ==
  /\ pc[Main] = "exited"
  /\ \A t \in Threads : pc[t] = "exited"
  /\ mutex = 1 /\ stats_sem = 1 /\ log_sem = 1 /\ rwlock = 0
  /\ accepted = MaxConn

====
